---- MODULE Spec2Model ----
(***************************************************************************)
(* Deployment-update reconciliation engine of cloudify-manager             *)
(* (rest-service/manager_rest/deployment_update/handlers.py), and two      *)
(* resources of its REST service (rest/resources_v3_1/operations.py and    *)
(* executions.py).                                                         *)
(*                                                                         *)
(* Spec      : the node coordinator (DeploymentUpdateNodeHandler): handle  *)
(*             replays the sorted steps through the entity handlers, then  *)
(*             finalize settles the persisted nodes.                       *)
(* SpecReplay: Spec plus a second handle over the same step list.          *)
(* SpecInst  : the instance reconciler                                     *)
(*             (DeploymentUpdateNodeInstanceHandler): the four phases of   *)
(*             handle, then the three loops of finalize.                   *)
(* SpecDep   : the dependency reconciler (DeploymentDependencies): the     *)
(*             pass of handle, then the pass of finalize.                  *)
(* SpecInstExternal: SpecInst plus another writer of a node instance       *)
(*             between handle and finalize.                                *)
(* SpecMerge : the merge of new operation inputs into the stored resumable *)
(*             operations (OperationHandler._update_stored_operations).    *)
(* SpecDeployment: the deployment coordinator                              *)
(*             (DeploymentUpdateDeploymentHandler) and its handlers.       *)
(* SpecOperations: PATCH and DELETE requests on the operations of an       *)
(*             execution (OperationsId), each a transaction holding the    *)
(*             row of its operation, and the counters of the execution.    *)
(* SpecExecutions: the request that deletes finished executions            *)
(*             (Executions.delete), one iteration of its loops at a time.  *)
(***************************************************************************)
EXTENDS Integers, Sequences, FiniteSets, TLC

VARIABLES
    nodes,                   \* persisted Node rows of the deployment: id -> row
    initial_nodes,           \* the rows as they were when the update started
    current_entities,        \* the staging dict handle threads through the handlers
    modified_entities,       \* entity type -> list of returned identifiers
    steps,                   \* dep_update.steps, in stored order
    queue,                   \* the steps of sorted(dep_update.steps) not yet applied
    applied,                 \* the steps whose handler was entered, in order
    error,                   \* the exception handle / finalize raised, or NoError
    pc,                      \* where the update is: "start", "handle",
                             \* "handled", "handle_raised", "finalized",
                             \* "finalize_raised"
    handle_calls,            \* how many times handle ran over the step list
    removed_node_instances,  \* dep_update...[REMOVED_AND_RELATED][AFFECTED]
    deleted_nodes,           \* ids of the nodes sm.delete removed, in order
    node_instances,          \* persisted NodeInstance rows: id -> row
    initial_instances,       \* the rows as they were when the update started
    updated_instances,       \* the buckets of the plan modification
    rel_mappings,            \* dep_update.modified_entity_ids['rel_mappings']
    modified_instances,      \* dep_update.deployment_update_node_instances
    handle_queue,            \* the modification types handle has not walked yet
    extended_node_instances, \* finalize: the local of _reduce_node_instances
    reorder_queue,           \* finalize: the nodes still to reorder
    reduce_queue,            \* finalize: the reduced instances still to settle
    delete_queue,            \* finalize: the removed instances still to delete
    sm_log,                  \* the calls of the storage manager on node instances
    ipc,                     \* where the instance reconciler is
    ierror,                  \* the exception its finalize raised, or NoError
    dependencies,            \* creators of the stored InterDeploymentDependencies
    initial_dependencies,    \* the creators stored when the update started
    plan_dependencies,       \* creators of the dependencies of the new plan
    keep_old_deployment_dependencies,
    dpc,                     \* where the dependency reconciler is
    external_writes,         \* writes of node instances by another writer
    operations,              \* persisted Operation rows: id -> parameters
    initial_operations,      \* the rows as they were when the step started
    resumable_ops,           \* the rows sm.list returned, as loaded objects
    new_operation,           \* the operation dict built from the step
    in_flight,               \* what the deployment has in flight: "none",
                             \* "executions" (without task graph), "graphs"
    merge_queue,             \* the loaded rows the merge loop has not seen
    merge_log,               \* ids of the operations sm.update wrote, in order
    merge_error,             \* the exception the merge raised, or NoError
    mpc,                     \* where the merge is
    deployment,              \* the persisted Deployment row
    initial_deployment,      \* the row as it was when the update started
    deployment_entities,     \* dep_update.deployment.to_dict(), as staged
    deployment_modified,     \* entity type -> list of returned identifiers
    deployment_steps,        \* dep_update.steps, in stored order
    deployment_queue,        \* the sorted steps not yet applied
    deployment_applied,      \* the steps whose handler returned, in order
    deployment_error,        \* the exception handle raised, or NoError
    depc,                    \* where the deployment coordinator is
    execution_operations,    \* the Operation rows of one execution: id -> row
    finished_operations,     \* the execution's finished_operations
    total_operations,        \* the execution's total_operations
    requests,                \* the PATCH and DELETE requests on the operations
    executions,              \* the stored Execution rows, in the order the storage lists them
    initial_executions,      \* the rows as they were when the request arrived
    delete_request,          \* the request: filters['status'], keep_last, to_datetime
    listed_executions,       \* the listed executions the loop has not seen
    matched_executions,      \* how many executions the listing returned
    dep_creation_execs,      \* deployment id -> terminated creation executions left
    max_to_delete,           \* len(executions) - keep_last, or NoIndex while unbound
    deleted_count,           \* the count the response carries
    purge_error,             \* the exception the request raised, or NoError
    xpc                      \* where the request is

node_vars ==
    <<nodes, initial_nodes, current_entities, modified_entities, steps, queue,
      applied, error, pc, handle_calls, removed_node_instances, deleted_nodes>>

instance_vars ==
    <<node_instances, initial_instances, updated_instances, rel_mappings,
      modified_instances, handle_queue, extended_node_instances,
      reorder_queue, reduce_queue, delete_queue, sm_log, ipc, ierror>>

dependency_vars ==
    <<dependencies, initial_dependencies, plan_dependencies,
      keep_old_deployment_dependencies, dpc>>

external_vars == <<external_writes>>

operation_vars ==
    <<operations, initial_operations, resumable_ops, new_operation,
      in_flight, merge_queue, merge_log, merge_error, mpc>>

deployment_vars ==
    <<deployment, initial_deployment, deployment_entities,
      deployment_modified, deployment_steps, deployment_queue,
      deployment_applied, deployment_error, depc>>

counts_vars ==
    <<execution_operations, finished_operations, total_operations,
      requests>>

purge_vars ==
    <<executions, initial_executions, delete_request,
      listed_executions, matched_executions, dep_creation_execs,
      max_to_delete, deleted_count, purge_error, xpc>>

vars ==
    <<node_vars, instance_vars, dependency_vars, external_vars,
      operation_vars, deployment_vars,
      counts_vars, purge_vars>>

\* what the actions of one component leave alone
beside_node_vars ==
    <<instance_vars, dependency_vars, external_vars, operation_vars,
      deployment_vars,
      counts_vars, purge_vars>>

beside_instance_vars ==
    <<node_vars, dependency_vars, external_vars, operation_vars,
      deployment_vars,
      counts_vars, purge_vars>>

beside_dependency_vars ==
    <<node_vars, instance_vars, external_vars, operation_vars,
      deployment_vars,
      counts_vars, purge_vars>>

beside_operation_vars ==
    <<node_vars, instance_vars, dependency_vars, external_vars,
      deployment_vars,
      counts_vars, purge_vars>>

beside_deployment_vars ==
    <<node_vars, instance_vars, dependency_vars, external_vars,
      operation_vars,
      counts_vars, purge_vars>>

beside_counts_vars ==
    <<node_vars, instance_vars, dependency_vars, external_vars,
      operation_vars, deployment_vars,
      purge_vars>>

beside_purge_vars ==
    <<node_vars, instance_vars, dependency_vars, external_vars,
      operation_vars, deployment_vars, counts_vars>>

----------------------------------------------------------------------------
(* Bounds *)

MaxSteps == 3

----------------------------------------------------------------------------
(* Values *)

NoError == "none"

\* A relationship slot holding Python's None.
None == [target_id |-> "None", type |-> "None"]

Rel(target, type) == [target_id |-> target, type |-> type]

EmptyDict == [k \in {} |-> 0]

\* A property value: a scalar, or a dict one level deep.
Scalar(n) == [kind |-> "scalar", v |-> n, sub |-> EmptyDict]
DictVal(d) == [kind |-> "dict", v |-> 0, sub |-> d]

Plugin(name, install, executor, version) ==
    [name |-> name, install |-> install, executor |-> executor,
     version |-> version]

COMPUTE_NODE_TYPE == "cloudify.nodes.Compute"
HOST_AGENT == "host_agent"
CENTRAL_DEPLOYMENT_AGENT == "central_deployment_agent"

\* dict helpers: d[k] = v, del d[k]
DictSet(d, k, v) == [x \in DOMAIN d \cup {k} |-> IF x = k THEN v ELSE d[x]]
DictDel(d, k) == [x \in DOMAIN d \ {k} |-> d[x]]

\* list[i] = v for a 0-based index i < len(list)
ListSet(l, i, v) == [l EXCEPT ![i + 1] = v]

RECURSIVE SeqFilterTruthy(_)
\* [r for r in relationships if r]
SeqFilterTruthy(l) ==
    IF l = <<>> THEN <<>>
    ELSE IF Head(l) = None THEN SeqFilterTruthy(Tail(l))
         ELSE <<Head(l)>> \o SeqFilterTruthy(Tail(l))

----------------------------------------------------------------------------
(* The deployment plan of the update and the stored topology it meets *)

AgentPlugin == Plugin("agent", TRUE, HOST_AGENT, "2")
OldAgentPlugin == Plugin("agent", TRUE, HOST_AGENT, "1")
CentralPlugin == Plugin("central", TRUE, CENTRAL_DEPLOYMENT_AGENT, "2")
NoInstallPlugin == Plugin("noinstall", FALSE, HOST_AGENT, "2")

RawNode(id, hierarchy, rels, plugins, to_install, props) ==
    [id |-> id, type_hierarchy |-> hierarchy, relationships |-> rels,
     plugins |-> plugins, plugins_to_install |-> to_install,
     properties |-> props, operations |-> EmptyDict,
     number_of_instances |-> 1, planned_number_of_instances |-> 1]

RootHierarchy == <<"cloudify.nodes.Root">>
ComputeHierarchy == <<"cloudify.nodes.Root", COMPUTE_NODE_TYPE>>

WebToDb == Rel("db", "connected_to")
WebToVm == Rel("vm", "contained_in")
WebToVmOld == Rel("vm", "connected_to")
VmToWeb == Rel("web", "connected_to")

\* node web's operations: the lifecycle operation create, a dict of its
\* inputs and its executor, both as of one blueprint version
WebOperations(version) ==
    [o \in {"create"} |-> DictVal([c \in {"inputs", "executor"} |-> version])]

\* dep_update.deployment_plan['nodes'], keyed by node id
deployment_plan ==
    [n \in {"db", "vm", "web"} |->
        CASE n = "db" ->
               RawNode("db", RootHierarchy, <<Rel("vm", "contained_in")>>,
                       <<CentralPlugin>>, <<>>, EmptyDict)
          [] n = "vm" ->
               RawNode("vm", ComputeHierarchy, <<VmToWeb>>,
                       <<AgentPlugin, CentralPlugin, NoInstallPlugin>>,
                       <<AgentPlugin>>, EmptyDict)
          [] n = "web" ->
               [RawNode("web", RootHierarchy, <<WebToDb, WebToVm>>,
                        <<AgentPlugin>>, <<>>,
                        [k \in {"port", "conf"} |->
                            IF k = "port" THEN Scalar(2)
                            ELSE DictVal([c \in {"a", "b"} |-> 2])])
                   EXCEPT !.operations = WebOperations(2)]]

StoredVm(instances) ==
    [RawNode("vm", ComputeHierarchy, <<>>, <<OldAgentPlugin>>, <<>>, EmptyDict)
        EXCEPT !.number_of_instances = instances,
               !.planned_number_of_instances = instances]

StoredWeb(rels) ==
    [RawNode("web", RootHierarchy, rels, <<OldAgentPlugin>>, <<>>,
             [k \in {"port", "conf"} |->
                 IF k = "port" THEN Scalar(1)
                 ELSE DictVal([c \in {"a", "b"} |-> 1])])
        EXCEPT !.operations = WebOperations(1)]

\* The relationship lists node web may hold when the update starts.
StoredWebRelationships ==
    {<<>>, <<WebToVmOld>>, <<WebToVmOld, WebToVm>>}

InitialTopologies ==
    {[n \in {"vm", "web"} |->
         IF n = "vm" THEN StoredVm(instances) ELSE StoredWeb(rels)] :
        rels \in StoredWebRelationships, instances \in {1, 2}}

----------------------------------------------------------------------------
(* Steps *)

NoIndex == 0 - 1

Step(ordinal, entity_type, action, node) ==
    [ord |-> ordinal, entity_type |-> entity_type, action |-> action,
     node |-> node, index |-> NoIndex, to_index |-> NoIndex,
     key |-> "", name |-> "", crumbs |-> <<>>]

\* The steps an update may hold, in ascending order of entity id
\* (remove before add before modify on the same id).
StepUniverse ==
    << Step(1, "node", "add", "db"),
       Step(2, "node", "remove", "vm"),
       [Step(3, "plugin", "add", "vm") EXCEPT
            !.key = "plugins", !.name = "central"],
       [Step(4, "plugin", "remove", "vm") EXCEPT
            !.key = "plugins", !.name = "agent"],
       [Step(5, "plugin", "add", "vm") EXCEPT
            !.key = "plugins_to_install", !.name = "agent"],
       [Step(6, "plugin", "modify", "web") EXCEPT
            !.key = "plugins", !.name = "agent"],
       [Step(7, "property", "modify", "web") EXCEPT
            !.name = "conf", !.crumbs = <<"a">>],
       [Step(8, "property", "remove", "web") EXCEPT !.name = "port"],
       [Step(9, "property", "modify", "web") EXCEPT !.name = "port"],
       [Step(10, "relationship", "remove", "web") EXCEPT !.index = 0],
       [Step(11, "relationship", "add", "web") EXCEPT !.index = 0],
       [Step(12, "relationship", "modify", "web") EXCEPT
            !.index = 0, !.to_index = 1],
       [Step(13, "relationship", "modify", "web") EXCEPT
            !.index = 0, !.to_index = 2],
       [Step(14, "relationship", "remove", "web") EXCEPT !.index = 1],
       [Step(15, "relationship", "add", "web") EXCEPT !.index = 1],
       [Step(16, "relationship", "modify", "web") EXCEPT
            !.index = 1, !.to_index = 0],
       [Step(17, "plugin", "add", "vm") EXCEPT
            !.key = "plugins", !.name = "noinstall"],
       [Step(18, "relationship", "add", "vm") EXCEPT !.index = 0],
       [Step(19, "operation", "modify", "web") EXCEPT
            !.name = "create", !.crumbs = <<"inputs">>] >>

\* DeploymentUpdateStep.__lt__
StepLess(a, b) == a.ord < b.ord

RECURSIVE InsertSorted(_, _)
InsertSorted(s, sorted) ==
    IF sorted = <<>> THEN <<s>>
    ELSE IF StepLess(s, Head(sorted)) THEN <<s>> \o sorted
         ELSE <<Head(sorted)>> \o InsertSorted(s, Tail(sorted))

RECURSIVE Sorted(_)
\* Python's sorted(): stable, by __lt__
Sorted(l) ==
    IF l = <<>> THEN <<>>
    ELSE InsertSorted(l[Len(l)], Sorted(SubSeq(l, 1, Len(l) - 1)))

StepsAsStored(l) == l

\* _fill_modified_entities: the order in which the steps are handled
StepsInOrder(l) == Sorted(l)

RECURSIVE StepListsUpTo(_)
\* The lists of at most n distinct steps of the universe, in any order.
StepListsUpTo(n) ==
    IF n = 0 THEN {<<>>}
    ELSE LET shorter == StepListsUpTo(n - 1) IN
         shorter \cup
         {Append(l, StepUniverse[i]) :
             <<l, i>> \in {<<l, i>> \in shorter \X (1..Len(StepUniverse)) :
                              /\ Len(l) = n - 1
                              /\ \A j \in 1..Len(l) : l[j].ord # i}}

\* The step lists dep_update.steps may hold.
StepLists == StepListsUpTo(MaxSteps)

----------------------------------------------------------------------------
(* Entity context (entity_context.get_entity_context) *)

\* deployment_update_utils.get_raw_node: the plan's node, or {} when absent
HasRawNode(id) == id \in DOMAIN deployment_plan

\* the first index at which list l holds an element named name
IndexOfName(l, name) ==
    CHOOSE i \in 1..Len(l) :
        l[i].name = name /\ \A j \in 1..(i - 1) : l[j].name # name

\* ctx.raw_entity_value of a plugin step: the plan's plugin of that name
RawPlugin(step) ==
    deployment_plan[step.node][step.key][
        IndexOfName(deployment_plan[step.node][step.key], step.name)]

\* ctx.raw_entity_value of a property step: the plan's value at the path
RawPropertyValue(step) ==
    IF step.crumbs = <<>>
    THEN deployment_plan[step.node].properties[step.name]
    ELSE Scalar(deployment_plan[step.node].properties[step.name].sub[
                    step.crumbs[1]])

\* ctx.raw_entity_value of an operation step: the plan's value at the path
RawOperationValue(step) ==
    IF step.crumbs = <<>>
    THEN deployment_plan[step.node].operations[step.name]
    ELSE Scalar(deployment_plan[step.node].operations[step.name].sub[
                    step.crumbs[1]])

\* deployment_update_utils.create_dict(breadcrumbs, value)
create_dict(crumbs, value) ==
    IF crumbs = <<>> THEN value
    ELSE DictVal([c \in {crumbs[1]} |-> value.v])

\* ctx.target_id of a relationship step: the target of the plan's
\* relationship at the index, else of the stored one
TargetId(step, nodes_) ==
    IF HasRawNode(step.node)
       /\ step.index < Len(deployment_plan[step.node].relationships)
    THEN deployment_plan[step.node].relationships[step.index + 1].target_id
    ELSE IF step.node \in DOMAIN nodes_
            /\ step.index < Len(nodes_[step.node].relationships)
         THEN nodes_[step.node].relationships[step.index + 1].target_id
         ELSE "None"

----------------------------------------------------------------------------
(* Entity handlers.  A handler works on a record h of the persisted nodes, *)
(* the staging dict, the identifier it returns and the exception it has    *)
(* raised, if any; each statement of a handler is skipped once an          *)
(* exception is raised.                                                    *)

Result(nodes_, cur, ret, err) ==
    [nodes |-> nodes_, cur |-> cur, ret |-> ret, error |-> err]

Raise(h, err) == [h EXCEPT !.error = err]

Raised(h) == h.error # NoError

RelId(node, target, indices) ==
    [node |-> node, target_id |-> target, indices |-> indices]

EntityId(step) ==
    [node |-> step.node, name |-> step.name, crumbs |-> step.crumbs]

\* current_entities[node_id] = node.to_dict()
StageStoredNode(id, h) == [h EXCEPT !.cur = DictSet(@, id, h.nodes[id])]

\* NodeHandler.add, one round of the loop over the relationship targets
UpdateTargetPlugins(t, h) ==
    IF Raised(h) THEN h
    ELSE IF t \notin DOMAIN h.nodes THEN Raise(h, "NotFoundError")
    ELSE IF ~HasRawNode(t) THEN Raise(h, "KeyError")
    ELSE StageStoredNode(
             t, [h EXCEPT !.nodes[t].plugins = deployment_plan[t].plugins])

RECURSIVE UpdateTargetsPlugins(_, _)
\* NodeHandler.add, the loop over the new node's relationship targets
UpdateTargetsPlugins(rels, h) ==
    IF rels = <<>> THEN h
    ELSE UpdateTargetsPlugins(Tail(rels),
                              UpdateTargetPlugins(Head(rels).target_id, h))

\* resource_manager._create_deployment_nodes(plan=..., node_ids=id)
CreateDeploymentNodes(id, h) ==
    IF ~HasRawNode(id) THEN h
    ELSE IF id \in DOMAIN h.nodes THEN Raise(h, "ConflictError")
    ELSE [h EXCEPT !.nodes = DictSet(@, id, deployment_plan[id])]

\* NodeHandler.add, after the node row was created
StageCreatedNode(id, h) ==
    IF Raised(h) THEN h
    ELSE IF id \notin DOMAIN h.nodes THEN Raise(h, "NotFoundError")
    ELSE UpdateTargetsPlugins(deployment_plan[id].relationships,
                              StageStoredNode(id, h))

NodeHandlerAdd(step, nodes_, cur) ==
    StageCreatedNode(
        step.node,
        CreateDeploymentNodes(step.node,
                              Result(nodes_, cur, step.node, NoError)))

\* a variant of NodeHandler.remove that deletes the persisted row as well
NodeRemoveDeletesRow(step, nodes_, cur) ==
    IF step.node \notin DOMAIN nodes_
    THEN Result(nodes_, cur, step.node, "NotFoundError")
    ELSE IF step.node \notin DOMAIN cur
    THEN Result(nodes_, cur, step.node, "KeyError")
    ELSE Result(DictDel(nodes_, step.node), DictDel(cur, step.node),
                step.node, NoError)

NodeHandlerRemove(step, nodes_, cur) ==
    IF step.node \notin DOMAIN nodes_
    THEN Result(nodes_, cur, step.node, "NotFoundError")
    ELSE IF step.node \notin DOMAIN cur
    THEN Result(nodes_, cur, step.node, "KeyError")
    ELSE Result(nodes_, DictDel(cur, step.node), step.node, NoError)

ResizeOffByOne(relationships, target_index) ==
    IF Len(relationships) <= target_index
    THEN relationships \o
         [k \in 1..(target_index - Len(relationships)) |-> None]
    ELSE relationships

\* RelationshipHandler._resize_relationships
ResizeRelationships(relationships, target_index) ==
    IF Len(relationships) <= target_index
    THEN relationships \o
         [k \in 1..(target_index - Len(relationships) + 1) |-> None]
    ELSE relationships

SlotNotWritten(relationships, index, relationship) == relationships

\* a variant of the assignment that inserts before the slot: list.insert
SlotInserted(relationships, index, relationship) ==
    SubSeq(relationships, 1, index) \o <<relationship>> \o
    SubSeq(relationships, index + 1, Len(relationships))

\* relationships[index] = relationship, on the resized list
WriteSlot(relationships, index, relationship) ==
    ListSet(relationships, index, relationship)

SlotDeleted(relationships, index) ==
    SubSeq(relationships, 1, index) \o
    SubSeq(relationships, index + 2, Len(relationships))

\* current_node[RELATIONSHIPS][index] = None
ClearSlot(relationships, index) == ListSet(relationships, index, None)

\* a variant of RelationshipHandler.remove that clears the persisted slot too
RelationshipRemovePersists(step, nodes_, cur) ==
    IF step.node \notin DOMAIN cur
    THEN Result(nodes_, cur, RelId(step.node, "None", <<>>), "KeyError")
    ELSE IF step.index >= Len(cur[step.node].relationships)
            \/ step.index >= Len(nodes_[step.node].relationships)
    THEN Result(nodes_, cur, RelId(step.node, "None", <<>>), "IndexError")
    ELSE Result([nodes_ EXCEPT ![step.node].relationships =
                     SlotDeleted(@, step.index)],
                [cur EXCEPT ![step.node].relationships =
                     ClearSlot(@, step.index)],
                RelId(step.node, TargetId(step, nodes_), <<>>), NoError)

RelationshipHandlerRemove(step, nodes_, cur) ==
    IF step.node \notin DOMAIN cur
    THEN Result(nodes_, cur, RelId(step.node, "None", <<>>), "KeyError")
    ELSE IF step.index >= Len(cur[step.node].relationships)
    THEN Result(nodes_, cur, RelId(step.node, "None", <<>>), "IndexError")
    ELSE Result(nodes_,
                [cur EXCEPT ![step.node].relationships =
                     ClearSlot(@, step.index)],
                RelId(step.node, TargetId(step, nodes_), <<>>), NoError)

\* RelationshipHandler.add: new_relationship
NewRelationship(step) ==
    deployment_plan[step.node].relationships[step.index + 1]

\* RelationshipHandler.add: reading the new relationship from the plan
ExtractNewRelationship(step, h) ==
    IF ~HasRawNode(step.node) THEN Raise(h, "KeyError")
    ELSE IF step.index >= Len(deployment_plan[step.node].relationships)
    THEN Raise(h, "IndexError")
    ELSE h

\* RelationshipHandler.add: resizing the staged list and writing the slot
StageNewRelationship(step, h) ==
    IF Raised(h) THEN h
    ELSE IF step.node \notin DOMAIN h.cur THEN Raise(h, "KeyError")
    ELSE [h EXCEPT !.cur[step.node].relationships =
              WriteSlot(ResizeRelationships(@, step.index), step.index,
                        NewRelationship(step))]

\* RelationshipHandler.add: the source node row and its staged plugins
UpdateSourceNode(step, h) ==
    IF Raised(h) THEN h
    ELSE IF step.node \notin DOMAIN h.nodes THEN Raise(h, "NotFoundError")
    ELSE [h EXCEPT
             !.nodes[step.node].relationships =
                 Append(@, NewRelationship(step)),
             !.nodes[step.node].plugins = deployment_plan[step.node].plugins,
             !.cur[step.node].plugins = deployment_plan[step.node].plugins]

\* RelationshipHandler.add: the target node row and its staged copy
UpdateTargetNode(target, h) ==
    IF Raised(h) THEN h
    ELSE IF target \notin DOMAIN h.nodes THEN Raise(h, "NotFoundError")
    ELSE IF ~HasRawNode(target) THEN Raise(h, "KeyError")
    ELSE StageStoredNode(
             target,
             [h EXCEPT !.nodes[target].plugins =
                  deployment_plan[target].plugins])

RelationshipHandlerAdd(step, nodes_, cur) ==
    UpdateTargetNode(
        TargetId(step, nodes_),
        UpdateSourceNode(
            step,
            StageNewRelationship(
                step,
                ExtractNewRelationship(
                    step,
                    Result(nodes_, cur,
                           RelId(step.node, TargetId(step, nodes_), <<>>),
                           NoError)))))

\* RelationshipHandler.modify: the resized list gets the stored relationship
MoveRelationship(step, h) ==
    IF step.node \notin DOMAIN h.nodes THEN Raise(h, "NotFoundError")
    ELSE IF step.index >= Len(h.nodes[step.node].relationships)
    THEN Raise(h, "IndexError")
    ELSE [h EXCEPT !.cur[step.node].relationships =
              WriteSlot(@, step.to_index,
                        h.nodes[step.node].relationships[step.index + 1])]

RelationshipHandlerModify(step, nodes_, cur) ==
    IF step.node \notin DOMAIN cur
    THEN Result(nodes_, cur,
                RelId(step.node, "", <<step.index, step.to_index>>),
                "KeyError")
    ELSE MoveRelationship(
             step,
             Result(nodes_,
                    [cur EXCEPT ![step.node].relationships =
                         ResizeRelationships(@, step.to_index)],
                    RelId(step.node, "", <<step.index, step.to_index>>),
                    NoError))

\* PropertyHandler.modify: the staged property, set at the path
StageProperty(step, value, h) ==
    IF Raised(h) THEN h
    ELSE IF step.node \notin DOMAIN h.cur THEN Raise(h, "KeyError")
    ELSE IF step.crumbs = <<>>
    THEN [h EXCEPT !.cur[step.node].properties =
              DictSet(@, step.name, value)]
    ELSE IF step.name \notin DOMAIN h.cur[step.node].properties
    THEN Raise(h, "KeyError")
    ELSE IF h.cur[step.node].properties[step.name].kind # "dict"
    THEN Raise(h, "TypeError")
    ELSE [h EXCEPT !.cur[step.node].properties[step.name].sub =
              DictSet(@, step.crumbs[1], value.v)]

\* PropertyHandler.modify: the stored property, replaced by create_dict
StoreProperty(step, value, h) ==
    IF step.node \notin DOMAIN h.nodes THEN Raise(h, "NotFoundError")
    ELSE [h EXCEPT !.nodes[step.node].properties =
              DictSet(@, step.name, create_dict(step.crumbs, value))]

PropertyHandlerModify(step, nodes_, cur) ==
    StageProperty(
        step, RawPropertyValue(step),
        StoreProperty(step, RawPropertyValue(step),
                      Result(nodes_, cur, EntityId(step), NoError)))

\* OperationHandler._modify_node_operation: the stored operation, replaced
\* by create_dict, and the stored plugins.  No execution of the deployment
\* is in flight, so _update_stored_operations returns at its first test.
StoreOperation(step, value, h) ==
    IF step.node \notin DOMAIN h.nodes THEN Raise(h, "NotFoundError")
    ELSE [h EXCEPT
             !.nodes[step.node].operations =
                 DictSet(@, step.name, create_dict(step.crumbs, value)),
             !.nodes[step.node].plugins = deployment_plan[step.node].plugins]

\* OperationHandler._modify_node_operation: the staged operation, set at
\* the path, and the staged plugins
StageOperation(step, value, h) ==
    IF Raised(h) THEN h
    ELSE IF step.node \notin DOMAIN h.cur THEN Raise(h, "KeyError")
    ELSE IF step.crumbs = <<>>
    THEN [h EXCEPT
             !.cur[step.node].operations = DictSet(@, step.name, value),
             !.cur[step.node].plugins = deployment_plan[step.node].plugins]
    ELSE IF step.name \notin DOMAIN h.cur[step.node].operations
    THEN Raise(h, "KeyError")
    ELSE IF h.cur[step.node].operations[step.name].kind # "dict"
    THEN Raise(h, "TypeError")
    ELSE [h EXCEPT
             !.cur[step.node].operations[step.name].sub =
                 DictSet(@, step.crumbs[1], value.v),
             !.cur[step.node].plugins = deployment_plan[step.node].plugins]

\* OperationHandler.add / modify of a node operation
ModifyNodeOperation(step, nodes_, cur) ==
    StageOperation(
        step, RawOperationValue(step),
        StoreOperation(step, RawOperationValue(step),
                       Result(nodes_, cur, EntityId(step), NoError)))

PropertyHandlerRemove(step, nodes_, cur) ==
    IF step.node \notin DOMAIN cur
    THEN Result(nodes_, cur, EntityId(step), "KeyError")
    ELSE IF step.name \notin DOMAIN cur[step.node].properties
    THEN Result(nodes_, cur, EntityId(step), "KeyError")
    ELSE Result(nodes_,
                [cur EXCEPT ![step.node].properties = DictDel(@, step.name)],
                EntityId(step), NoError)

\* PluginHandler._is_installable
\* a variant of _is_installable without the test of the node's type
InstallableOnAnyNode(plugin, node) ==
    /\ plugin.install
    /\ plugin.executor = HOST_AGENT

IsInstallable(plugin, node) ==
    /\ \E i \in 1..Len(node.type_hierarchy) :
           node.type_hierarchy[i] = COMPUTE_NODE_TYPE
    /\ plugin.install
    /\ plugin.executor = HOST_AGENT

\* list.remove(x), for the element at 1-based position i
ListRemoveAt(l, i) == SubSeq(l, 1, i - 1) \o SubSeq(l, i + 1, Len(l))

\* The state a plugin list mutation works on.
Mutation(plugins, return_dict, err) ==
    [plugins |-> plugins, return_dict |-> return_dict, error |-> err]

\* return_dict[key] = (node.id, plugin), if the plugin is installable
Report(return_dict, key, plugin, node) ==
    IF IsInstallable(plugin, node)
    THEN DictSet(return_dict, key, [node |-> node.id, plugin |-> plugin])
    ELSE return_dict

\* PluginHandler._add
PluginAdd(step, node, m) ==
    IF m.error # NoError THEN m
    ELSE Mutation(Append(m.plugins, RawPlugin(step)),
                  Report(m.return_dict, "add", RawPlugin(step), node),
                  NoError)

\* PluginHandler._remove
PluginRemove(step, node, m) ==
    IF \A i \in 1..Len(m.plugins) : m.plugins[i].name # step.name
    THEN [m EXCEPT !.error = "IndexError"]
    ELSE Mutation(ListRemoveAt(m.plugins, IndexOfName(m.plugins, step.name)),
                  Report(m.return_dict, "remove",
                         m.plugins[IndexOfName(m.plugins, step.name)], node),
                  NoError)

\* PluginHandler._modify
PluginModify(step, node, m) == PluginAdd(step, node, PluginRemove(step, node, m))

\* mutate_func(ctx, plugins, node, return_dict)
MutateFunc(step, node, m) ==
    CASE step.action = "add" -> PluginAdd(step, node, m)
      [] step.action = "remove" -> PluginRemove(step, node, m)
      [] step.action = "modify" -> PluginModify(step, node, m)

\* PluginHandler._mutate_plugins_list, once the list is mutated
StorePlugins(step, nodes_, cur, m) ==
    IF m.error # NoError THEN Result(nodes_, cur, m.return_dict, m.error)
    ELSE IF step.node \notin DOMAIN cur
    THEN Result(nodes_, cur, m.return_dict, "KeyError")
    ELSE Result([nodes_ EXCEPT ![step.node][step.key] = m.plugins],
                [cur EXCEPT ![step.node][step.key] = m.plugins],
                m.return_dict, NoError)

\* PluginHandler._mutate_plugins_list, for add / remove / modify
MutatePluginsList(step, nodes_, cur) ==
    IF step.node \notin DOMAIN nodes_
    THEN Result(nodes_, cur, EmptyDict, "NotFoundError")
    ELSE StorePlugins(
             step, nodes_, cur,
             MutateFunc(step, nodes_[step.node],
                        Mutation(nodes_[step.node][step.key], EmptyDict,
                                 NoError)))

----------------------------------------------------------------------------
(* The coordinator *)

\* entity_updater = getattr(entity_handlers[step.entity_type], step.action)
EntityUpdater(step, nodes_, cur) ==
    CASE step.entity_type = "node" /\ step.action = "add" ->
            NodeHandlerAdd(step, nodes_, cur)
      [] step.entity_type = "node" /\ step.action = "remove" ->
            NodeHandlerRemove(step, nodes_, cur)
      [] step.entity_type = "relationship" /\ step.action = "add" ->
            RelationshipHandlerAdd(step, nodes_, cur)
      [] step.entity_type = "relationship" /\ step.action = "remove" ->
            RelationshipHandlerRemove(step, nodes_, cur)
      [] step.entity_type = "relationship" /\ step.action = "modify" ->
            RelationshipHandlerModify(step, nodes_, cur)
      [] step.entity_type = "property" /\ step.action \in {"add", "modify"} ->
            PropertyHandlerModify(step, nodes_, cur)
      [] step.entity_type = "property" /\ step.action = "remove" ->
            PropertyHandlerRemove(step, nodes_, cur)
      [] step.entity_type = "operation" /\ step.action \in {"add", "modify"} ->
            ModifyNodeOperation(step, nodes_, cur)
      [] step.entity_type = "plugin" ->
            MutatePluginsList(step, nodes_, cur)

SupportedEntityTypes ==
    {"node", "relationship", "operation", "property", "plugin"}

\* deployment_update_utils.ModifiedEntitiesDict()
EmptyModifiedEntities == [t \in SupportedEntityTypes |-> <<>>]

\* The state one pass of _fill_modified_entities works on.
Acc(nodes_, cur, modified, err) ==
    [nodes |-> nodes_, cur |-> cur, modified |-> modified, error |-> err]

LoopIgnoresErrors(err) == TRUE

\* The loop goes on to the next step only while no handler has raised.
LoopGoesOn(err) == err = NoError

\* modified_entities[step.entity_type].append(entity_id)
RecordEntity(acc, step, r) ==
    IF r.error # NoError
    THEN Acc(r.nodes, r.cur, acc.modified, r.error)
    ELSE Acc(r.nodes, r.cur,
             [acc.modified EXCEPT ![step.entity_type] = Append(@, r.ret)],
             NoError)

\* One iteration of the loop of _fill_modified_entities
FillStep(acc, step) ==
    IF step.entity_type \notin SupportedEntityTypes THEN acc
    ELSE RecordEntity(acc, step, EntityUpdater(step, acc.nodes, acc.cur))

RECURSIVE FillAll(_, _)
\* _fill_modified_entities over a list of steps already in handling order
FillAll(acc, ordered) ==
    IF ordered = <<>> \/ ~LoopGoesOn(acc.error) THEN acc
    ELSE FillAll(FillStep(acc, Head(ordered)), Tail(ordered))

\* DeploymentUpdateNodeHandler.handle, as a function of the stored rows and
\* the stored step list
HandleResult(nodes_, stored_steps) ==
    FillAll(Acc(nodes_, nodes_, EmptyModifiedEntities, NoError),
            StepsInOrder(stored_steps))

RECURSIVE InstancesOf(_, _)
\* the raw node instances of a node that has n of them
InstancesOf(node_id, n) ==
    IF n = 0 THEN <<>>
    ELSE Append(InstancesOf(node_id, n - 1),
                [id |-> <<node_id, n>>, node_id |-> node_id])

RECURSIVE RemovedInstances(_, _)
\* The removed bucket the instance stage hands over: every instance of every
\* stored node that a node remove step of the update names.
RemovedInstances(ordered, nodes_) ==
    IF ordered = <<>> THEN <<>>
    ELSE (IF Head(ordered).entity_type = "node"
             /\ Head(ordered).action = "remove"
             /\ Head(ordered).node \in DOMAIN nodes_
          THEN InstancesOf(Head(ordered).node,
                           nodes_[Head(ordered).node].number_of_instances)
          ELSE <<>>) \o RemovedInstances(Tail(ordered), nodes_)

\* deployment_update_utils.extract_ids(removed_node_instances, 'node_id')
ExtractNodeIds(instances) == {instances[i].node_id : i \in 1..Len(instances)}

\* a variant of the write that keeps the None slots of the staged list
SettleUncompacted(node, modified_node) ==
    [node EXCEPT
        !.number_of_instances = modified_node.number_of_instances,
        !.planned_number_of_instances =
            modified_node.planned_number_of_instances,
        !.relationships = modified_node.relationships,
        !.operations = modified_node.operations,
        !.plugins = modified_node.plugins,
        !.properties = modified_node.properties]

\* finalize, the write of one modified node
SettleNode(node, modified_node) ==
    [node EXCEPT
        !.number_of_instances = modified_node.number_of_instances,
        !.planned_number_of_instances =
            modified_node.planned_number_of_instances,
        !.relationships = SeqFilterTruthy(modified_node.relationships),
        !.operations = modified_node.operations,
        !.plugins = modified_node.plugins,
        !.properties = modified_node.properties]

\* The state finalize works on.
Fin(nodes_, deleted, err) ==
    [nodes |-> nodes_, deleted |-> deleted, error |-> err]

RECURSIVE DeleteRemovedNodes(_, _)
\* finalize, the loop deleting the node of every removed instance
DeleteRemovedNodes(instances, f) ==
    IF instances = <<>> \/ f.error # NoError THEN f
    ELSE IF Head(instances).node_id \notin DOMAIN f.nodes
    THEN [f EXCEPT !.error = "NotFoundError"]
    ELSE DeleteRemovedNodes(
             Tail(instances),
             Fin(DictDel(f.nodes, Head(instances).node_id),
                 Append(f.deleted, Head(instances).node_id), NoError))

\* finalize, the loop over the modified nodes
SettleNodes(nodes_, update_nodes, modified_ids) ==
    IF \E id \in modified_ids : id \notin DOMAIN nodes_
    THEN Fin(nodes_, <<>>, "NotFoundError")
    ELSE Fin([id \in DOMAIN nodes_ |->
                 IF id \in modified_ids
                 THEN SettleNode(nodes_[id], update_nodes[id])
                 ELSE nodes_[id]],
             <<>>, NoError)

\* DeploymentUpdateNodeHandler.finalize
FinalizeResult(nodes_, update_nodes, removed) ==
    DeleteRemovedNodes(
        removed,
        SettleNodes(nodes_, update_nodes,
                    DOMAIN update_nodes \ ExtractNodeIds(removed)))

----------------------------------------------------------------------------
(* The instance reconciler (DeploymentUpdateNodeInstanceHandler): values   *)

MaxRelIndex == 2

\* a relationship of a node instance; rel_index NoIndex: the key is absent
InstanceRelationship(target_id, type, rel_index) ==
    [target_id |-> target_id, type |-> type, rel_index |-> rel_index]

\* the None that _reorder_relationships leaves in a slot
NoRelationship == InstanceRelationship("None", "None", NoIndex)

\* version None
NoVersion == NoIndex

\* the 'modification' key is absent
NoModification == "absent"

ToDb == InstanceRelationship("db_1", "connected_to", NoIndex)
ToDbDepends == InstanceRelationship("db_1", "depends_on", NoIndex)
ToVm == InstanceRelationship("vm_1", "contained_in", NoIndex)
\* a relationship an earlier update extended the instance with
ToVmIndexed == InstanceRelationship("vm_1", "contained_in", 1)
ToCache(rel_index) == InstanceRelationship("cache_1", "connected_to", rel_index)
ToQueue(rel_index) == InstanceRelationship("queue_1", "connected_to", rel_index)
ToDbNew(rel_index) == InstanceRelationship("db_1", "depends_on", rel_index)

\* a stored NodeInstance row
NodeInstance(id, node_id, relationships, version) ==
    [id |-> id, node_id |-> node_id, relationships |-> relationships,
     version |-> version]

\* a raw node instance of the plan modification (updated_instances)
RawInstance(id, node_id, modification, relationships, version) ==
    [id |-> id, node_id |-> node_id, modification |-> modification,
     relationships |-> relationships, version |-> version]

StoredVersion == 3

\* the relationship lists the web instances are stored with
OldRelationshipLists ==
    {<<>>, <<ToDb>>, <<ToDb, ToVm>>, <<ToVm, ToDb>>, <<ToDb, ToDbDepends>>,
     <<ToDb, ToVmIndexed>>}

RelIndices == {NoIndex} \cup 0..MaxRelIndex

\* the relationships an 'extended' raw instance introduces (none: the
\* instance is not extended)
ExtensionLists ==
    {<<>>} \cup {<<ToCache(i)>> : i \in RelIndices}
           \cup {<<ToCache(i), ToQueue(i - 1)>> : i \in 1..MaxRelIndex}
           \cup {<<ToDbNew(i)>> : i \in 1..MaxRelIndex}

\* the relationships a 'reduced' raw instance loses (none: not reduced)
ReductionLists == {<<>>, <<ToDb>>, <<ToVm>>, <<ToDb, ToVm>>}

\* modified_entity_ids['rel_mappings']: node id -> list of (old, new)
RelMappings ==
    {EmptyDict,
     [n \in {"web"} |-> <<<<0, 1>>>>],
     [n \in {"web"} |-> <<<<0, 1>>, <<1, 0>>>>]}

Targets(relationships) ==
    {relationships[k].target_id : k \in 1..Len(relationships)}

\* the storage the update meets
InitialInstances(old) ==
    [id \in {"web_1", "web_2", "db_1", "vm_1", "cache_1", "queue_1"} |->
        CASE id = "web_1" -> NodeInstance(id, "web", old, StoredVersion)
          [] id = "web_2" -> NodeInstance(id, "web", old, StoredVersion)
          [] id = "db_1" -> NodeInstance(id, "db", <<>>, StoredVersion)
          [] id = "vm_1" -> NodeInstance(id, "vm", <<>>, StoredVersion)
          [] id = "cache_1" -> NodeInstance(id, "cache", <<>>, StoredVersion)
          [] OTHER -> NodeInstance(id, "queue", <<>>, StoredVersion)]

\* the bucket of one modification type: what the plan lists for the web
\* instances, web_1 first or last
Bucket(modification, rels1, rels2, version, web_1_first) ==
    LET raw(id, rels) ==
            IF rels = <<>> THEN <<>>
            ELSE <<RawInstance(id, "web", modification, rels, version)>>
    IN  IF web_1_first THEN raw("web_1", rels1) \o raw("web_2", rels2)
        ELSE raw("web_2", rels2) \o raw("web_1", rels1)

\* the instances the plan may remove: every stored or new relationship to
\* them is among the relationships their source is reduced by
Removable(old, ext1, ext2, red1, red2) ==
    {t \in {"db_1", "vm_1"} :
        /\ t \notin Targets(ext1) \cup Targets(ext2)
        /\ t \in Targets(old) => (t \in Targets(red1) /\ t \in Targets(red2))}

\* the identifiers of the model, in the order of their strings
IdOrder ==
    <<"cache_1", "db", "db_1", "new_1", "queue_1", "vm", "vm_1", "web",
      "web_1", "web_2">>

\* the identifiers of a set, in that order
SetToSeq(s) == SelectSeq(IdOrder, LAMBDA id : id \in s)

NodeOf(instance_id) ==
    CASE instance_id = "db_1" -> "db"
      [] instance_id = "vm_1" -> "vm"
      [] instance_id = "new_1" -> "new"
      [] instance_id = "cache_1" -> "cache"
      [] instance_id = "queue_1" -> "queue"
      [] OTHER -> "web"

\* the extended bucket lists, after the extended instances, the target of
\* the first new relationship as a related instance
RelatedOfExtension(extension) ==
    IF extension = <<>> THEN <<>>
    ELSE <<RawInstance(extension[1].target_id, NodeOf(extension[1].target_id),
                       NoModification, <<>>, StoredVersion)>>

RemovedBucket(removed) ==
    LET ids == SetToSeq(removed)
    IN  [k \in 1..Len(ids) |->
            RawInstance(ids[k], NodeOf(ids[k]), "removed", <<>>, StoredVersion)]
        \o (IF removed = {} THEN <<>>
            ELSE <<RawInstance("web_1", "web", NoModification, <<>>,
                               StoredVersion)>>)

AddedBuckets ==
    {<<>>,
     <<RawInstance("new_1", "new", "added", <<ToCache(NoIndex)>>,
                   StoredVersion),
       RawInstance("cache_1", "cache", NoModification, <<>>, StoredVersion)>>}

\* updated_instances: the buckets of the plan modification
UpdatedInstances(added, extended, reduced, removed) ==
    [added_and_related |-> added, extended_and_related |-> extended,
     reduced_and_related |-> reduced, removed_and_related |-> removed]

\* a handled bucket: {AFFECTED: ..., RELATED: ...}, or {} when not handled
Handled(affected, related) == [affected |-> affected, related |-> related]

NotHandled == Handled(<<>>, <<>>)

\* modified_instances = {k: {} for k in self._handlers_mapper}
EmptyModifiedInstances ==
    [added_and_related |-> NotHandled, extended_and_related |-> NotHandled,
     reduced_and_related |-> NotHandled, removed_and_related |-> NotHandled]

\* a call of the storage manager
SmCall(op, id) == [op |-> op, id |-> id]

----------------------------------------------------------------------------
(* The instance reconciler: handle *)

\* node_instance.get('modification', 'related')
ModificationOf(raw) ==
    IF raw.modification = NoModification THEN "related" ELSE raw.modification

\* _handle_version
HandleVersion(version) == IF version # NoVersion THEN version ELSE 0

\* key=lambda r: r.get('rel_index', 0)
RelIndexKey(r) == IF r.rel_index = NoIndex THEN 0 ELSE r.rel_index

RECURSIVE InsertByRelIndex(_, _)
InsertByRelIndex(r, l) ==
    IF l = <<>> THEN <<r>>
    ELSE IF RelIndexKey(r) < RelIndexKey(Head(l)) THEN <<r>> \o l
    ELSE <<Head(l)>> \o InsertByRelIndex(r, Tail(l))

\* a variant that keeps the relationships in the order of the plan
AsListed(l) == l

\* sorted(node_instance['relationships'], key=...): stable
RECURSIVE SortedByRelIndex(_)
SortedByRelIndex(l) ==
    IF l = <<>> THEN <<>>
    ELSE InsertByRelIndex(l[Len(l)], SortedByRelIndex(SubSeq(l, 1, Len(l) - 1)))

\* the state a phase of handle works on
Phase(instances, affected, related, log) ==
    [instances |-> instances, affected |-> affected, related |-> related,
     log |-> log]

\* rm._create_deployment_node_instances
CreateDeploymentNodeInstances(p) ==
    [p EXCEPT !.instances =
        [id \in DOMAIN p.instances
               \cup {p.affected[k].id : k \in 1..Len(p.affected)} |->
            IF id \in DOMAIN p.instances THEN p.instances[id]
            ELSE LET k == CHOOSE k \in 1..Len(p.affected) :
                              p.affected[k].id = id
                 IN  NodeInstance(id, p.affected[k].node_id,
                                  p.affected[k].relationships, NoVersion)]]

AddedInstance(raw) == [raw EXCEPT !.version = NoVersion]

RECURSIVE SortAdded(_, _)
SortAdded(bucket, p) ==
    IF bucket = <<>> THEN p
    ELSE IF ModificationOf(Head(bucket)) = "added"
    THEN SortAdded(Tail(bucket),
                   [p EXCEPT !.affected =
                        Append(@, AddedInstance(Head(bucket)))])
    ELSE SortAdded(Tail(bucket),
                   [p EXCEPT !.related = Append(@, Head(bucket))])

\* _handle_adding_node_instance
HandleAddingNodeInstance(bucket, p) ==
    CreateDeploymentNodeInstances(SortAdded(bucket, p))

\* the relationships an extended instance is stored with
ExtendedRelationships(stored, new) == stored \o new

ExtendInstance(instance, sorted, version) ==
    [instance EXCEPT
        !.relationships = ExtendedRelationships(@, sorted),
        !.version = HandleVersion(version)]

ExtendWith(raw, sorted, p) ==
    [p EXCEPT
        !.instances[raw.id] = ExtendInstance(@, sorted, raw.version),
        !.affected = Append(@, [raw EXCEPT !.relationships = sorted]),
        !.log = @ \o <<SmCall("get_locking", raw.id), SmCall("update", raw.id)>>]

\* _handle_adding_relationship_instance
RECURSIVE HandleAddingRelationshipInstance(_, _)
HandleAddingRelationshipInstance(bucket, p) ==
    IF bucket = <<>> THEN p
    ELSE IF ModificationOf(Head(bucket)) = "extended"
    THEN HandleAddingRelationshipInstance(
             Tail(bucket),
             ExtendWith(Head(bucket),
                        SortedByRelIndex(Head(bucket).relationships), p))
    ELSE HandleAddingRelationshipInstance(
             Tail(bucket), [p EXCEPT !.related = Append(@, Head(bucket))])

EveryRelationship(relationships, target_ids) == relationships

\* [rel for rel in modified_node['relationships']
\*  if rel['target_id'] not in target_ids]
RemainingRelationships(relationships, target_ids) ==
    SelectSeq(relationships, LAMBDA rel : rel.target_id \notin target_ids)

\* sm.get(...).to_dict() with the relationships and the version replaced
ModifiedNode(instance, raw) ==
    RawInstance(instance.id, instance.node_id, NoModification,
                RemainingRelationships(instance.relationships,
                                       Targets(raw.relationships)),
                HandleVersion(raw.version))

ReduceWith(raw, p) ==
    [p EXCEPT
        !.affected = Append(@, ModifiedNode(p.instances[raw.id], raw)),
        !.log = Append(@, SmCall("get", raw.id))]

\* _handle_removing_relationship_instance
RECURSIVE HandleRemovingRelationshipInstance(_, _)
HandleRemovingRelationshipInstance(bucket, p) ==
    IF bucket = <<>> THEN p
    ELSE IF ModificationOf(Head(bucket)) = "reduced"
    THEN HandleRemovingRelationshipInstance(Tail(bucket),
                                            ReduceWith(Head(bucket), p))
    ELSE HandleRemovingRelationshipInstance(
             Tail(bucket), [p EXCEPT !.related = Append(@, Head(bucket))])

\* raw_node_instance.pop('modification', 'related')
Popped(raw) == [raw EXCEPT !.modification = NoModification]

\* _handle_removing_node_instance
RECURSIVE HandleRemovingNodeInstance(_, _)
HandleRemovingNodeInstance(bucket, p) ==
    IF bucket = <<>> THEN p
    ELSE IF ModificationOf(Head(bucket)) = "removed"
    THEN HandleRemovingNodeInstance(
             Tail(bucket), [p EXCEPT !.affected = Append(@, Popped(Head(bucket)))])
    ELSE HandleRemovingNodeInstance(
             Tail(bucket), [p EXCEPT !.related = Append(@, Popped(Head(bucket)))])

\* self._handlers_mapper, in the order handle walks it
HandlersMapper ==
    <<"added_and_related", "extended_and_related", "reduced_and_related",
      "removed_and_related">>

\* handler(updated_instances[change_type], dep_update)
Handler(change_type, bucket, p) ==
    CASE change_type = "added_and_related" ->
             HandleAddingNodeInstance(bucket, p)
      [] change_type = "extended_and_related" ->
             HandleAddingRelationshipInstance(bucket, p)
      [] change_type = "reduced_and_related" ->
             HandleRemovingRelationshipInstance(bucket, p)
      [] OTHER -> HandleRemovingNodeInstance(bucket, p)

----------------------------------------------------------------------------
(* The instance reconciler: finalize *)

\* a variant of _clean_relationship_index_field that deletes no key
RelationshipIndexFieldKept(relationships) == relationships

\* _clean_relationship_index_field
CleanRelationshipIndexField(relationships) ==
    [k \in 1..Len(relationships) |->
        [relationships[k] EXCEPT !.rel_index = NoIndex]]

\* the state finalize works on
Final(instances, extended, log, err) ==
    [instances |-> instances, extended |-> extended, log |-> log,
     error |-> err]

\* the list _reorder_relationships rewrites, and the IndexError of a list
\* assignment or lookup out of range
Order(relationships, err) == [relationships |-> relationships, error |-> err]

\* relationships[new_index] = old_relationships[old_index]
MoveOne(pair, old_relationships, o) ==
    IF pair[1] >= Len(old_relationships) \/ pair[2] >= Len(o.relationships)
    THEN Order(o.relationships, "IndexError")
    ELSE Order([o.relationships EXCEPT
                    ![pair[2] + 1] = old_relationships[pair[1] + 1]],
               NoError)

\* for old_index, new_index in indices_list
RECURSIVE MoveAll(_, _, _)
MoveAll(indices_list, old_relationships, o) ==
    IF indices_list = <<>> \/ o.error # NoError THEN o
    ELSE MoveAll(Tail(indices_list), old_relationships,
                 MoveOne(Head(indices_list), old_relationships, o))

\* relationships[index] = None
\* relationships[relationship['rel_index']] = relationship
PlaceOne(index, relationship, o) ==
    IF relationship.rel_index >= Len(o.relationships)
    THEN Order(o.relationships, "IndexError")
    ELSE Order([[o.relationships EXCEPT ![index + 1] = NoRelationship]
                    EXCEPT ![relationship.rel_index + 1] = relationship],
               NoError)

\* for index, relationship in (... if 'rel_index' in r)
RECURSIVE PlaceAll(_, _, _)
PlaceAll(index, old_relationships, o) ==
    IF index >= Len(old_relationships) \/ o.error # NoError THEN o
    ELSE IF old_relationships[index + 1].rel_index = NoIndex
    THEN PlaceAll(index + 1, old_relationships, o)
    ELSE PlaceAll(index + 1, old_relationships,
                  PlaceOne(index, old_relationships[index + 1], o))

\* relationships = [r for r in relationships if r]
WithoutNone(o) ==
    Order(SelectSeq(o.relationships, LAMBDA r : r # NoRelationship), o.error)

\* the body of the loop of _reorder_relationships, on one relationship list
Reordered(indices_list, old_relationships) ==
    WithoutNone(PlaceAll(0, old_relationships,
                         MoveAll(indices_list, old_relationships,
                                 Order(old_relationships, NoError))))

InstanceIdsOf(node_id, instances) ==
    {id \in DOMAIN instances : instances[id].node_id = node_id}

\* sm.list(NodeInstance, filters={... 'node_id': node_id}).items[0].id
FirstInstanceId(ids) == Head(SetToSeq(ids))

StoreOrder(id, o, f) ==
    IF o.error # NoError
    THEN [f EXCEPT !.error = o.error,
                   !.log = Append(@, SmCall("get_locking", id))]
    ELSE [f EXCEPT !.instances[id].relationships = o.relationships,
                   !.log = @ \o <<SmCall("get_locking", id),
                                  SmCall("update", id)>>]

ReorderInstance(id, indices_list, f) ==
    StoreOrder(id, Reordered(indices_list, f.instances[id].relationships), f)

\* one iteration of the loop of _reorder_relationships
ReorderRelationships(node_id, indices_list, f) ==
    IF InstanceIdsOf(node_id, f.instances) = {}
    THEN [f EXCEPT !.error = "IndexError"]
    ELSE ReorderInstance(FirstInstanceId(InstanceIdsOf(node_id, f.instances)),
                         indices_list, f)

\* [i for i in extended_node_instances
\*  if (i['id'] == reduced_node_instance['id'] and 'modification' in i)]
ExtendedOf(extended, id) ==
    SelectSeq(extended,
              LAMBDA i : i.id = id /\ i.modification # NoModification)

NotUnioned(remaining_relationships, extended) == remaining_relationships

\* if extended_node_instances: remaining_relationships.extend(relationships)
Unioned(remaining_relationships, extended) ==
    IF extended # <<>>
    THEN remaining_relationships
             \o CleanRelationshipIndexField(extended[1].relationships)
    ELSE remaining_relationships

AllStored(storage_relationships, remaining_relationships) ==
    storage_relationships

\* [r for r in storage_relationships if r in remaining_relationships]
StillStored(storage_relationships, remaining_relationships) ==
    SelectSeq(storage_relationships,
              LAMBDA r : \E k \in 1..Len(remaining_relationships) :
                             remaining_relationships[k] = r)

\* extended_node_instances after the iteration: rebound to the filtered
\* list, the relationships of its first entry cleaned in place
Rebound(extended) ==
    IF extended = <<>> THEN extended
    ELSE [extended EXCEPT
             ![1].relationships = CleanRelationshipIndexField(@)]

ReducedInstance(instance, remaining_relationships) ==
    [instance EXCEPT
        !.relationships =
            StillStored(CleanRelationshipIndexField(@),
                        remaining_relationships),
        !.version = @ + 1]

ReduceTo(id, staged, extended, f) ==
    [f EXCEPT
        !.instances[id] = ReducedInstance(@, Unioned(staged, extended)),
        !.extended = Rebound(extended),
        !.log = @ \o <<SmCall("get_locking", id), SmCall("update", id)>>]

\* one iteration of the loop of _reduce_node_instances
ReduceNodeInstance(reduced_node_instance, f) ==
    ReduceTo(reduced_node_instance.id, reduced_node_instance.relationships,
             ExtendedOf(f.extended, reduced_node_instance.id), f)

WithoutInstance(instances, id) ==
    [other \in DOMAIN instances \ {id} |-> instances[other]]

\* one iteration of the loop that deletes the removed node instances
DeleteNodeInstance(removed_node_instance, f) ==
    IF removed_node_instance.id \notin DOMAIN f.instances
    THEN [f EXCEPT !.error = "NotFoundError",
                   !.log = Append(@, SmCall("get", removed_node_instance.id))]
    ELSE [f EXCEPT
             !.instances = WithoutInstance(@, removed_node_instance.id),
             !.log = @ \o <<SmCall("get", removed_node_instance.id),
                            SmCall("delete", removed_node_instance.id)>>]

\* rel_order_instances.items()
RelOrderItems(mappings) ==
    LET ids == SetToSeq(DOMAIN mappings)
    IN  [k \in 1..Len(ids) |-> <<ids[k], mappings[ids[k]]>>]

InstanceInit ==
    /\ \E old \in OldRelationshipLists,
          ext1 \in ExtensionLists, red1 \in ReductionLists,
          extend_both \in BOOLEAN, reduce_both \in BOOLEAN,
          web_1_first \in BOOLEAN,
          version \in {NoVersion, StoredVersion},
          added \in AddedBuckets :
        \E removed \in SUBSET Removable(
                           old, ext1, IF extend_both THEN ext1 ELSE <<>>,
                           red1, IF reduce_both THEN red1 ELSE <<>>) :
            /\ node_instances = InitialInstances(old)
            /\ updated_instances =
                   UpdatedInstances(
                       added,
                       Bucket("extended", ext1,
                              IF extend_both THEN ext1 ELSE <<>>,
                              version, TRUE) \o RelatedOfExtension(ext1),
                       Bucket("reduced", red1,
                              IF reduce_both THEN red1 ELSE <<>>,
                              version, web_1_first),
                       RemovedBucket(removed))
    /\ initial_instances = node_instances
    /\ rel_mappings \in RelMappings
    /\ modified_instances = EmptyModifiedInstances
    /\ handle_queue = HandlersMapper
    /\ extended_node_instances = <<>>
    /\ reorder_queue = <<>>
    /\ reduce_queue = <<>>
    /\ delete_queue = <<>>
    /\ sm_log = <<>>
    /\ ipc = "handle"
    /\ ierror = NoError

\* the instance reconciler does not run
InstanceIdle ==
    /\ node_instances = EmptyDict
    /\ initial_instances = EmptyDict
    /\ updated_instances = UpdatedInstances(<<>>, <<>>, <<>>, <<>>)
    /\ rel_mappings = EmptyDict
    /\ modified_instances = EmptyModifiedInstances
    /\ handle_queue = <<>>
    /\ extended_node_instances = <<>>
    /\ reorder_queue = <<>>
    /\ reduce_queue = <<>>
    /\ delete_queue = <<>>
    /\ sm_log = <<>>
    /\ ipc = "idle"
    /\ ierror = NoError


----------------------------------------------------------------------------
(* The dependency reconciler (DeploymentDependencies).  A dependency       *)
(* creator is the sequence of the characters of its string.                *)

NODES == <<"n", "o", "d", "e", "s">>
COMPONENT == <<"c", "o", "m", "p", "o", "n", "e", "n", "t">>
SHARED_RESOURCE ==
    <<"s", "h", "a", "r", "e", "d", "r", "e", "s", "o", "u", "r", "c", "e">>

\* the creators of the rows the update may meet and of the new plan
NodeCreator == NODES \o <<".", "v", "m">>
UpperNodeCreator == <<"N", "o", "d", "e", "s", ".", "v", "m">>
NodesLikeCreator == NODES \o <<"_", "x">>
ComponentCreator == COMPONENT \o <<".", "c">>
SharedResourceCreator == SHARED_RESOURCE \o <<".", "r">>
OutputCreator == <<"o", "u", "t", "p", "u", "t", "s", ".", "o">>

Creators ==
    {NodeCreator, UpperNodeCreator, NodesLikeCreator, ComponentCreator,
     SharedResourceCreator, OutputCreator}

\* str.startswith
StartsWith(s, prefix) ==
    /\ Len(s) >= Len(prefix)
    /\ SubSeq(s, 1, Len(prefix)) = prefix

LowerChar(c) == IF c = "N" THEN "n" ELSE c

Lower(s) == [k \in 1..Len(s) |-> LowerChar(s[k])]

\* col.ilike('{0}.%'.format(prefix))
ILike(s, prefix) == StartsWith(Lower(s), Lower(prefix \o <<".">>))

\* handle: is_non_node
IsNonNode(dependency_creator) ==
    \A prefix \in {NODES, COMPONENT, SHARED_RESOURCE} :
        ~StartsWith(dependency_creator, prefix)

\* finalize: is_node
IsNode(dependency_creator) == StartsWith(dependency_creator, NODES)

\* handle: the DEPENDENCY_CREATOR filters of the query
HandleQuery(dependency_creator) ==
    /\ ~ILike(dependency_creator, NODES)
    /\ ~ILike(dependency_creator, COMPONENT)
    /\ ~ILike(dependency_creator, SHARED_RESOURCE)

\* finalize: the DEPENDENCY_CREATOR filter of the query
FinalizeQuery(dependency_creator) == ILike(dependency_creator, NODES)

\* the pass of handle (TRUE) or of finalize (FALSE)
QueryFilter(in_handle, dependency_creator) ==
    IF in_handle THEN HandleQuery(dependency_creator)
    ELSE FinalizeQuery(dependency_creator)

PlanFilter(in_handle, dependency_creator) ==
    IF in_handle THEN IsNonNode(dependency_creator)
    ELSE IsNode(dependency_creator)

\* curr_dependencies: the rows of the source deployment the query loads
CurrDependencies(rows, in_handle) ==
    {creator \in rows : QueryFilter(in_handle, creator)}

\* update_deployment_dependencies_from_plan: the creators of the plan the
\* filter function accepts
NewDependenciesDict(plan, in_handle) ==
    {creator \in plan : PlanFilter(in_handle, creator)}

\* dependencies_to_remove
DependenciesToRemove(rows, plan, in_handle) ==
    {creator \in CurrDependencies(rows, in_handle) :
        creator \notin NewDependenciesDict(plan, in_handle)}

\* update_inter_deployment_dependencies: re-derives the targets of the
\* rows; no row is created or deleted
UpdateInterDeploymentDependencies(rows) == rows

\* a variant of _handle_dependency_changes without the early return
RemovesOutdated(rows, plan, in_handle, keep_outdated_dependencies) ==
    (rows \cup NewDependenciesDict(plan, in_handle))
        \ DependenciesToRemove(rows, plan, in_handle)

\* _handle_dependency_changes
HandleDependencyChanges(rows, plan, in_handle, keep_outdated_dependencies) ==
    IF keep_outdated_dependencies
    THEN rows \cup NewDependenciesDict(plan, in_handle)
    ELSE (rows \cup NewDependenciesDict(plan, in_handle))
             \ DependenciesToRemove(rows, plan, in_handle)

DependencyInit ==
    /\ dependencies \in SUBSET Creators
    /\ initial_dependencies = dependencies
    /\ plan_dependencies \in SUBSET Creators
    /\ keep_old_deployment_dependencies \in BOOLEAN
    /\ dpc = "start"

\* the dependency reconciler does not run
DependencyIdle ==
    /\ dependencies = {}
    /\ initial_dependencies = {}
    /\ plan_dependencies = {}
    /\ keep_old_deployment_dependencies = FALSE
    /\ dpc = "idle"

----------------------------------------------------------------------------
(* The merge of new operation inputs into the stored resumable operations  *)
(* (OperationHandler._update_stored_operations).  A stored operation is    *)
(* its parameters dict: which of the nested keys it has, the entries of    *)
(* parameters['task_kwargs']['kwargs'] beside __cloudify_context, and the  *)
(* has_intrinsic_functions flag of the context.                            *)

MaxOperations == 3

\* cloudify_tasks.TASK_*: the states of a stored operation
TASK_PENDING == "pending"
TASK_RESCHEDULED == "rescheduled"
TASK_FAILED == "failed"
TASK_SUCCEEDED == "succeeded"

\* what the stored parameters of an operation name: the node and the
\* operation of the step, another node, or another operation of the node
ThisOperation == "node_and_operation"
OtherNode == "other_node"
OtherOperation == "other_operation"

\* The task graphs.  g1 is the graph of the deployment's latest execution,
\* which is pending, started, cancelled or failed exactly when in_flight is
\* "graphs"; g2 is the graph of an execution that is terminated or belongs
\* to another deployment.
TaskGraphs == {"g1", "g2"}

OperationRow(id, task_kwargs, kwargs, context, inputs) ==
    [id |-> id, task_kwargs |-> task_kwargs, kwargs |-> kwargs,
     context |-> context, inputs |-> inputs,
     has_intrinsic_functions |-> FALSE,
     state |-> TASK_PENDING, graph |-> "g1", named |-> ThisOperation]

\* the shapes of a parameters dict: complete, without __cloudify_context,
\* without kwargs, without task_kwargs
ParameterShapes ==
    {<<TRUE, TRUE, TRUE>>, <<TRUE, TRUE, FALSE>>, <<TRUE, FALSE, FALSE>>,
     <<FALSE, FALSE, FALSE>>}

StoredKwargs == {EmptyDict, [k \in {"a"} |-> 1]}

\* new_operation: with an 'inputs' entry or without one
NewOperation(has_inputs, inputs) ==
    [has_inputs |-> has_inputs, inputs |-> inputs]

NewOperations ==
    {NewOperation(FALSE, EmptyDict)} \cup
    {NewOperation(TRUE, i) :
        i \in {EmptyDict, [k \in {"a"} |-> 2], [k \in {"a", "b"} |-> 2]}}

\* a stored operation of the complete shape
CompleteRow == OperationRow(0, TRUE, TRUE, TRUE, [k \in {"a"} |-> 1])

\* the rows of the complete shape that differ from CompleteRow in one of
\* the columns the listing filters on
FilteredRowKinds ==
    {[CompleteRow EXCEPT !.state = TASK_RESCHEDULED],
     [CompleteRow EXCEPT !.state = TASK_FAILED],
     [CompleteRow EXCEPT !.state = TASK_SUCCEEDED],
     [CompleteRow EXCEPT !.graph = "g2"],
     [CompleteRow EXCEPT !.named = OtherNode],
     [CompleteRow EXCEPT !.named = OtherOperation]}

\* the Operation rows a deployment may hold, by id 1..n
OperationRows ==
    UNION {[1..n -> {OperationRow(0, shape[1], shape[2], shape[3], kw) :
                        shape \in ParameterShapes, kw \in StoredKwargs}
                    \cup FilteredRowKinds] :
              n \in 0..MaxOperations}

\* the rows with their ids filled in
Identified(rows) == [id \in DOMAIN rows |-> [rows[id] EXCEPT !.id = id]]

\* a variant of the listing that does not filter on the state
AnyState == {TASK_RESCHEDULED, TASK_FAILED, TASK_PENDING, TASK_SUCCEEDED}

\* the states the listing asks for
ResumableStates == {TASK_RESCHEDULED, TASK_FAILED, TASK_PENDING}

\* graphs = self.sm.list(models.TasksGraph, ...): the task graphs of the
\* executions of the deployment that are pending, started, cancelled or
\* failed
GraphsInFlight(flight) == IF flight = "graphs" THEN {"g1"} ELSE {}

\* the filters of self.sm.list(models.Operation, ...) on one row
IsResumable(op, graphs) ==
    /\ op.named = ThisOperation
    /\ op.graph \in graphs
    /\ op.state \in ResumableStates

\* resumable_ops = self.sm.list(models.Operation, filters=...)
ListResumable(rows, graphs) ==
    SelectSeq(rows, LAMBDA op : IsResumable(op, graphs))

\* the listed operations as loaded objects, by id
LoadedById(listed) ==
    [id \in {listed[k].id : k \in DOMAIN listed} |->
        listed[CHOOSE k \in DOMAIN listed : listed[k].id = id]]

\* dict.update(other)
DictUpdate(d, other) ==
    [k \in DOMAIN d \cup DOMAIN other |->
        IF k \in DOMAIN other THEN other[k] ELSE d[k]]

\* op.parameters['task_kwargs']['kwargs'] raises KeyError
KwargsMissing(op) == ~op.task_kwargs \/ ~op.kwargs

\* ...['kwargs']['__cloudify_context'] raises KeyError
ContextMissing(op) == ~op.context

\* op.parameters['task_kwargs']['kwargs'].update(new_op_inputs)
MergedKwargs(op, new_op_inputs) ==
    [op EXCEPT !.inputs = DictUpdate(@, new_op_inputs)]

\* ...['__cloudify_context']['has_intrinsic_functions'] = True
WithIntrinsicFunctions(op) == [op EXCEPT !.has_intrinsic_functions = TRUE]

\* the body of the try statement, on the loaded object
TryMerge(op, new_op_inputs) ==
    IF KwargsMissing(op) THEN op
    ELSE IF ContextMissing(op) THEN MergedKwargs(op, new_op_inputs)
    ELSE WithIntrinsicFunctions(MergedKwargs(op, new_op_inputs))

\* the try statement leaves through its except clause
RaisesKeyError(op) == KwargsMissing(op) \/ ContextMissing(op)

\* a variant of the except clause that leaves the loop
LoopLeft(rest) == <<>>

\* except KeyError: continue
AfterKeyError(rest) == rest

\* self.sm.update(op, modified_attrs=['parameters'])
UpdateOperation(rows, op) == [rows EXCEPT ![op.id] = op]

OperationInit ==
    /\ operations \in {Identified(rows) : rows \in OperationRows}
    /\ initial_operations = operations
    /\ resumable_ops = <<>>
    /\ new_operation \in NewOperations
    /\ in_flight \in {"none", "executions", "graphs"}
    /\ merge_queue = <<>>
    /\ merge_log = <<>>
    /\ merge_error = NoError
    /\ mpc = "start"

\* no operation step runs
OperationIdle ==
    /\ operations = <<>>
    /\ initial_operations = <<>>
    /\ resumable_ops = <<>>
    /\ new_operation = NewOperation(FALSE, EmptyDict)
    /\ in_flight = "none"
    /\ merge_queue = <<>>
    /\ merge_log = <<>>
    /\ merge_error = NoError
    /\ mpc = "idle"

\* no other writer runs
ExternalIdle == external_writes = <<>>

----------------------------------------------------------------------------
(* The deployment coordinator (DeploymentUpdateDeploymentHandler) and its  *)
(* entity handlers.  The handlers work on the same record h as the node    *)
(* level ones, its field nodes holding the Deployment row.                 *)

MaxDeploymentSteps == 3

\* Python's None, where an identifier is expected
NoEntityId == <<>>

\* a description column holding NULL
NoDescription == "None"

\* ctx.entity_id of a step of the deployment level
DeploymentEntityId(step) == <<step.entity_type, step.name>>

DeploymentRow(workflows, outputs, description, updated_at) ==
    [workflows |-> workflows, outputs |-> outputs,
     description |-> description, updated_at |-> updated_at]

\* the deployment the update meets
StoredDeployment ==
    DeploymentRow([w \in {"w1"} |-> Scalar(1)],
                  [o \in {"o1"} |-> DictVal([c \in {"value"} |-> 1])],
                  "old", "created")

\* workflows, outputs and description of the new plan
plan_deployment ==
    DeploymentRow([w \in {"w1", "w2"} |-> Scalar(2)],
                  [o \in {"o1", "o2"} |-> DictVal([c \in {"value"} |-> 2])],
                  "new", "")

\* The steps of the deployment level an update may hold, and a step of a
\* type the deployment coordinator does not support.
DeploymentStepUniverse ==
    << Step(1, "description", "remove", ""),
       Step(2, "description", "modify", ""),
       Step(3, "node", "add", "db"),
       [Step(4, "output", "remove", "") EXCEPT !.name = "o1"],
       [Step(5, "output", "modify", "") EXCEPT
            !.name = "o1", !.crumbs = <<"value">>],
       [Step(6, "output", "add", "") EXCEPT !.name = "o2"],
       [Step(7, "output", "remove", "") EXCEPT !.name = "o3"],
       [Step(8, "workflow", "remove", "") EXCEPT !.name = "w1"],
       [Step(9, "workflow", "modify", "") EXCEPT !.name = "w1"],
       [Step(10, "workflow", "add", "") EXCEPT !.name = "w2"] >>

\* the lists of at most n distinct steps, with a next step appended
LongerBy(shorter, n) ==
    {Append(l, DeploymentStepUniverse[i]) :
        <<l, i>> \in {<<l, i>> \in shorter \X DOMAIN DeploymentStepUniverse :
                         /\ Len(l) = n - 1
                         /\ \A j \in 1..Len(l) : l[j].ord # i}}

RECURSIVE DeploymentStepListsUpTo(_)
DeploymentStepListsUpTo(n) ==
    IF n = 0 THEN {<<>>}
    ELSE DeploymentStepListsUpTo(n - 1)
            \cup LongerBy(DeploymentStepListsUpTo(n - 1), n)

DeploymentStepLists == DeploymentStepListsUpTo(MaxDeploymentSteps)

\* ctx.raw_entity_value of a workflow or output step: the plan's value, at
\* the path of the breadcrumbs
RawDeploymentValue(step, key) ==
    IF step.crumbs = <<>> THEN plan_deployment[key][step.name]
    ELSE Scalar(plan_deployment[key][step.name].sub[step.crumbs[1]])

\* WorkflowHandler.add: no return statement
WorkflowHandlerAdd(step, row, cur) ==
    Result([row EXCEPT !.workflows =
                DictSet(@, step.name,
                        create_dict(step.crumbs,
                                    RawDeploymentValue(step, "workflows")))],
           [cur EXCEPT !.workflows =
                DictSet(@, step.name,
                        create_dict(step.crumbs,
                                    RawDeploymentValue(step, "workflows")))],
           NoEntityId, NoError)

\* WorkflowHandler.remove
WorkflowHandlerRemove(step, row, cur) ==
    IF step.name \notin DOMAIN cur.workflows
    THEN Result(row, cur, NoEntityId, "KeyError")
    ELSE IF step.name \notin DOMAIN row.workflows
    THEN Result(row, [cur EXCEPT !.workflows = DictDel(@, step.name)],
                NoEntityId, "KeyError")
    ELSE Result([row EXCEPT !.workflows = DictDel(@, step.name)],
                [cur EXCEPT !.workflows = DictDel(@, step.name)],
                DeploymentEntityId(step), NoError)

\* WorkflowHandler.modify
WorkflowHandlerModify(step, row, cur) == WorkflowHandlerAdd(step, row, cur)

\* OutputHandler.add: the row gets the dict built from the breadcrumbs, the
\* staged deployment the raw value
OutputHandlerAdd(step, row, cur) ==
    Result([row EXCEPT !.outputs =
                DictSet(@, step.name,
                        create_dict(step.crumbs,
                                    RawDeploymentValue(step, "outputs")))],
           [cur EXCEPT !.outputs =
                DictSet(@, step.name, RawDeploymentValue(step, "outputs"))],
           DeploymentEntityId(step), NoError)

\* OutputHandler.remove
OutputHandlerRemove(step, row, cur) ==
    IF step.name \notin DOMAIN cur.outputs
    THEN Result(row, cur, NoEntityId, "KeyError")
    ELSE IF step.name \notin DOMAIN row.outputs
    THEN Result(row, [cur EXCEPT !.outputs = DictDel(@, step.name)],
                NoEntityId, "KeyError")
    ELSE Result([row EXCEPT !.outputs = DictDel(@, step.name)],
                [cur EXCEPT !.outputs = DictDel(@, step.name)],
                DeploymentEntityId(step), NoError)

\* OutputHandler.modify
OutputHandlerModify(step, row, cur) == OutputHandlerAdd(step, row, cur)

\* DescriptionHandler._set_description
SetDescription(step, row, cur, new_value) ==
    Result([row EXCEPT !.description = new_value],
           [cur EXCEPT !.description = new_value],
           DeploymentEntityId(step), NoError)

\* DescriptionHandler.add / modify / remove
DescriptionHandlerAdd(step, row, cur) ==
    SetDescription(step, row, cur, plan_deployment.description)

DescriptionHandlerRemove(step, row, cur) ==
    SetDescription(step, row, cur, NoDescription)

\* entity_updater = getattr(entity_handlers[step.entity_type], step.action)
DeploymentEntityUpdater(step, row, cur) ==
    CASE step.entity_type = "workflow" /\ step.action = "add" ->
            WorkflowHandlerAdd(step, row, cur)
      [] step.entity_type = "workflow" /\ step.action = "modify" ->
            WorkflowHandlerModify(step, row, cur)
      [] step.entity_type = "workflow" /\ step.action = "remove" ->
            WorkflowHandlerRemove(step, row, cur)
      [] step.entity_type = "output" /\ step.action = "add" ->
            OutputHandlerAdd(step, row, cur)
      [] step.entity_type = "output" /\ step.action = "modify" ->
            OutputHandlerModify(step, row, cur)
      [] step.entity_type = "output" /\ step.action = "remove" ->
            OutputHandlerRemove(step, row, cur)
      [] step.entity_type = "description"
            /\ step.action \in {"add", "modify"} ->
            DescriptionHandlerAdd(step, row, cur)
      [] step.entity_type = "description" /\ step.action = "remove" ->
            DescriptionHandlerRemove(step, row, cur)

DeploymentEntityTypes == {"workflow", "output", "description"}

\* modified_entities of DeploymentUpdateDeploymentHandler.handle
EmptyDeploymentModified == [t \in DeploymentEntityTypes |-> <<>>]

\* One iteration of the loop of _fill_modified_entities, for the deployment
\* coordinator
DeploymentFillStep(acc, step) ==
    IF step.entity_type \notin DeploymentEntityTypes THEN acc
    ELSE RecordEntity(acc, step,
                      DeploymentEntityUpdater(step, acc.nodes, acc.cur))

\* DeploymentUpdateDeploymentHandler.finalize
DeploymentFinalized(row) == [row EXCEPT !.updated_at = "now"]

DeploymentInit ==
    /\ deployment = StoredDeployment
    /\ initial_deployment = deployment
    /\ deployment_entities = EmptyDict
    /\ deployment_modified = EmptyDeploymentModified
    /\ deployment_steps \in DeploymentStepLists
    /\ deployment_queue = <<>>
    /\ deployment_applied = <<>>
    /\ deployment_error = NoError
    /\ depc = "start"

\* the deployment coordinator does not run
DeploymentIdle ==
    /\ deployment = StoredDeployment
    /\ initial_deployment = StoredDeployment
    /\ deployment_entities = EmptyDict
    /\ deployment_modified = EmptyDeploymentModified
    /\ deployment_steps = <<>>
    /\ deployment_queue = <<>>
    /\ deployment_applied = <<>>
    /\ deployment_error = NoError
    /\ depc = "idle"

----------------------------------------------------------------------------
(* The operations resource (rest/resources_v3_1/operations.py): requests   *)
(* that change the state of a stored operation or delete it, and the       *)
(* counters of the execution                                               *)

MaxRequests == 3
MaxExecutionOperations == 2

TASK_STARTED == "started"

\* cloudify.constants.TERMINATED_STATES
TERMINATED_STATES == {TASK_RESCHEDULED, TASK_SUCCEEDED, TASK_FAILED}

\* the states a request may ask for
OperationStates == {TASK_PENDING, TASK_STARTED, TASK_SUCCEEDED, TASK_FAILED}

\* the request has no 'state'
NoState == "absent"

StoredOperation(state, is_nop) == [state |-> state, is_nop |-> is_nop]

\* the operations of an execution counted as finished
FinishedOf(rows) ==
    {id \in DOMAIN rows :
        ~rows[id].is_nop /\ rows[id].state \in TERMINATED_STATES}

\* the operations of an execution that are counted at all
CountedOf(rows) == {id \in DOMAIN rows : ~rows[id].is_nop}

\* a request that has not arrived, has returned or has raised
Request(rpc) ==
    [kind |-> "none", operation_id |-> 0, state |-> NoState, rpc |-> rpc]

\* a request holding the locked row of its operation
Holding(kind, operation_id, state) ==
    [kind |-> kind, operation_id |-> operation_id, state |-> state,
     rpc |-> "locked"]

\* sm.get(models.Operation, operation_id, locking=True) waits while another
\* transaction holds the row
Locked(reqs, operation_id) ==
    \E r \in DOMAIN reqs :
        reqs[r].rpc = "locked" /\ reqs[r].operation_id = operation_id

\* the requests arrive in the order of their numbers
Arrives(reqs, r) ==
    /\ reqs[r].rpc = "new"
    /\ \A q \in DOMAIN reqs : q < r => reqs[q].rpc # "new"

\* patch: instance.state = request_dict.get('state', instance.state)
PatchedState(instance_state, request_state) ==
    IF request_state = NoState THEN instance_state ELSE request_state

\* patch: the finished_delta of the call, 0 without a call
PatchFinishedDelta(instance, old_state) ==
    IF /\ ~instance.is_nop
       /\ old_state \notin TERMINATED_STATES
       /\ instance.state \in TERMINATED_STATES
    THEN 1 ELSE 0

\* patch: the instance after the assignment of the state
PatchedInstance(instance, request_state) ==
    [instance EXCEPT !.state = PatchedState(instance.state, request_state)]

\* delete: finished_delta, 0 without a call
DeleteFinishedDelta(instance) ==
    IF instance.is_nop THEN 0
    ELSE IF instance.state \in TERMINATED_STATES THEN 0 - 1 ELSE 0

\* delete: total_delta, 0 without a call
DeleteTotalDelta(instance) == IF instance.is_nop THEN 0 ELSE 0 - 1

\* _modify_execution_operations_counts: column + delta
ModifyCount(column, delta) == column + delta

CountsInit ==
    /\ execution_operations \in
           [1..MaxExecutionOperations ->
               {StoredOperation(state, is_nop) :
                   state \in OperationStates, is_nop \in BOOLEAN}]
    /\ finished_operations = Cardinality(FinishedOf(execution_operations))
    /\ total_operations = Cardinality(CountedOf(execution_operations))
    /\ requests = [r \in 1..MaxRequests |-> Request("new")]

\* no request on the operations arrives
CountsIdle ==
    /\ execution_operations = EmptyDict
    /\ finished_operations = 0
    /\ total_operations = 0
    /\ requests = <<>>

----------------------------------------------------------------------------
(* The executions resource (rest/resources_v3_1/executions.py): the        *)
(* request that deletes the finished executions                            *)

MaxExecutions == 3
MaxKeepLast == 4

\* ExecutionState.END_STATES
END_STATES == {"terminated", "failed", "cancelled"}

\* the statuses of the stored executions and of the filter of a request
ExecutionStatuses == {"terminated", "failed", "started"}

CREATE_DEPLOYMENT_ENVIRONMENT == "create_deployment_environment"

\* the request has no such key
Absent == NoIndex

\* an Execution row; created_at is a count of seconds
Execution(id, workflow_id, status, deployment_id) ==
    [id |-> id, workflow_id |-> workflow_id, status |-> status,
     deployment_id |-> deployment_id, created_at |-> id]

ExecutionKinds ==
    {Execution(0, workflow_id, status, deployment_id) :
        workflow_id \in {CREATE_DEPLOYMENT_ENVIRONMENT, "install"},
        status \in ExecutionStatuses,
        deployment_id \in {"d1", "d2"}}

\* the stored executions, oldest first, with their ids
StoredExecutions ==
    UNION {{[k \in 1..n |-> [rows[k] EXCEPT !.id = k, !.created_at = k]] :
               rows \in [1..n -> ExecutionKinds]} :
              n \in 0..MaxExecutions}

\* request_dict and filters['status']; "any" is a request without the filter
DeleteRequests ==
    [status : ExecutionStatuses \cup {"any"},
     keep_last : {Absent} \cup 0..MaxKeepLast,
     to_datetime : {Absent} \cup 1..(MaxExecutions + 1)]

\* the tests of the request that raise BadParametersError
BadParameters(request) ==
    \/ /\ request.keep_last # Absent
       /\ \/ request.to_datetime # Absent
          \/ request.keep_last <= 0
    \/ /\ request.status # "any"
       /\ request.status \notin END_STATES

\* filters['status'] of the listing
StatusFilter(request) ==
    IF request.status = "any" THEN END_STATES ELSE {request.status}

\* executions = sm.list(models.Execution, filters=filters, ...)
ListExecutions(rows, request) ==
    SelectSeq(rows, LAMBDA execution :
                        execution.status \in StatusFilter(request))

\* the listed terminated creation executions of a deployment
CreationExecutions(listed, deployment_id) ==
    {k \in DOMAIN listed :
        /\ listed[k].workflow_id = CREATE_DEPLOYMENT_ENVIRONMENT
        /\ listed[k].status = "terminated"
        /\ listed[k].deployment_id = deployment_id}

\* dep_creation_execs after the first loop
DepCreationExecs(listed) ==
    [deployment_id \in
        {listed[k].deployment_id :
            k \in {j \in DOMAIN listed :
                      /\ listed[j].workflow_id = CREATE_DEPLOYMENT_ENVIRONMENT
                      /\ listed[j].status = "terminated"}} |->
        Cardinality(CreationExecutions(listed, deployment_id))]

\* max_to_delete = len(executions) - request_dict['keep_last'], bound only
\* when keep_last is given
MaxToDelete(listed, request) ==
    IF request.keep_last # Absent /\ request.keep_last # 0
    THEN Len(listed) - request.keep_last
    ELSE Absent

\* _can_delete_execution: dep_creation_execs[execution.deployment_id]
\* raises KeyError
CreationCountMissing(execution, execs) ==
    /\ execution.workflow_id = CREATE_DEPLOYMENT_ENVIRONMENT
    /\ execution.deployment_id \notin DOMAIN execs

\* _can_delete_execution, the value returned
CanDeleteExecution(execution, execs) ==
    IF execution.workflow_id = CREATE_DEPLOYMENT_ENVIRONMENT
    THEN execs[execution.deployment_id] > 1
    ELSE TRUE

\* _can_delete_execution, dep_creation_execs after the call
AfterCanDelete(execution, execs) ==
    IF /\ execution.workflow_id = CREATE_DEPLOYMENT_ENVIRONMENT
       /\ execs[execution.deployment_id] > 1
    THEN [execs EXCEPT ![execution.deployment_id] = @ - 1]
    ELSE execs

\* sm.delete(execution)
DeleteExecution(rows, execution) ==
    SelectSeq(rows, LAMBDA row : row.id # execution.id)

\* the test of the loop over the executions older than to_datetime
OlderThan(execution, request) == execution.created_at < request.to_datetime

\* if request_dict.get('keep_last') and deleted_count >= max_to_delete: break
Breaks(request, count, max) ==
    /\ request.keep_last # Absent
    /\ request.keep_last # 0
    /\ count >= max

PurgeInit ==
    /\ executions \in StoredExecutions
    /\ initial_executions = executions
    /\ delete_request \in DeleteRequests
    /\ listed_executions = <<>>
    /\ matched_executions = 0
    /\ dep_creation_execs = EmptyDict
    /\ max_to_delete = Absent
    /\ deleted_count = 0
    /\ purge_error = NoError
    /\ xpc = "start"

\* no request deletes executions
PurgeIdle ==
    /\ executions = <<>>
    /\ initial_executions = <<>>
    /\ delete_request = [status |-> "any", keep_last |-> Absent,
                         to_datetime |-> Absent]
    /\ listed_executions = <<>>
    /\ matched_executions = 0
    /\ dep_creation_execs = EmptyDict
    /\ max_to_delete = Absent
    /\ deleted_count = 0
    /\ purge_error = NoError
    /\ xpc = "idle"

----------------------------------------------------------------------------
(* Actions *)

NodeInit ==
    /\ nodes \in InitialTopologies
    /\ initial_nodes = nodes
    /\ steps \in StepLists
    /\ current_entities = EmptyDict
    /\ modified_entities = EmptyModifiedEntities
    /\ queue = <<>>
    /\ applied = <<>>
    /\ error = NoError
    /\ pc = "start"
    /\ handle_calls = 0
    /\ removed_node_instances = <<>>
    /\ deleted_nodes = <<>>

\* the node coordinator does not run
NodeIdle ==
    /\ nodes = EmptyDict
    /\ initial_nodes = EmptyDict
    /\ steps = <<>>
    /\ current_entities = EmptyDict
    /\ modified_entities = EmptyModifiedEntities
    /\ queue = <<>>
    /\ applied = <<>>
    /\ error = NoError
    /\ pc = "idle"
    /\ handle_calls = 0
    /\ removed_node_instances = <<>>
    /\ deleted_nodes = <<>>

\* neither the merge, nor the deployment coordinator, nor another writer
RestIdle ==
    /\ CountsIdle /\ PurgeIdle
    /\ ExternalIdle /\ OperationIdle /\ DeploymentIdle

Init == NodeInit /\ InstanceIdle /\ DependencyIdle /\ RestIdle

InitInst == NodeIdle /\ InstanceInit /\ DependencyIdle /\ RestIdle

InitDep == NodeIdle /\ InstanceIdle /\ DependencyInit /\ RestIdle

InitMerge ==
    /\ NodeIdle /\ InstanceIdle /\ DependencyIdle
    /\ ExternalIdle /\ OperationInit /\ DeploymentIdle
    /\ CountsIdle /\ PurgeIdle

InitDeployment ==
    /\ NodeIdle /\ InstanceIdle /\ DependencyIdle
    /\ ExternalIdle /\ OperationIdle /\ DeploymentInit
    /\ CountsIdle /\ PurgeIdle

InitOperations ==
    /\ NodeIdle /\ InstanceIdle /\ DependencyIdle
    /\ ExternalIdle /\ OperationIdle /\ DeploymentIdle
    /\ CountsInit /\ PurgeIdle

InitExecutions ==
    /\ NodeIdle /\ InstanceIdle /\ DependencyIdle
    /\ ExternalIdle /\ OperationIdle /\ DeploymentIdle
    /\ CountsIdle /\ PurgeInit

\* handle, up to the loop: snapshot the stored nodes, sort the steps
BeginHandle ==
    /\ current_entities' = nodes
    /\ modified_entities' = EmptyModifiedEntities
    /\ queue' = StepsInOrder(steps)
    /\ applied' = <<>>
    /\ pc' = "handle"
    /\ handle_calls' = handle_calls + 1
    /\ UNCHANGED <<nodes, initial_nodes, steps, error, removed_node_instances,
                   deleted_nodes>>
    /\ UNCHANGED beside_node_vars

HandleBegin ==
    /\ pc = "start"
    /\ BeginHandle

\* the loop of _fill_modified_entities has handled one more step
StepHandled(acc) ==
    /\ nodes' = acc.nodes
    /\ current_entities' = acc.cur
    /\ modified_entities' = acc.modified
    /\ error' = acc.error

\* one iteration of the loop of _fill_modified_entities
HandleStep ==
    /\ pc = "handle"
    /\ queue # <<>>
    /\ LoopGoesOn(error)
    /\ StepHandled(FillStep(Acc(nodes, current_entities, modified_entities,
                                NoError),
                            Head(queue)))
    /\ queue' = Tail(queue)
    /\ applied' = Append(applied, Head(queue))
    /\ UNCHANGED <<initial_nodes, steps, pc, handle_calls,
                   removed_node_instances, deleted_nodes>>
    /\ UNCHANGED beside_node_vars

\* the exception of a handler leaves handle
HandleRaise ==
    /\ pc = "handle"
    /\ ~LoopGoesOn(error)
    /\ pc' = "handle_raised"
    /\ UNCHANGED <<nodes, initial_nodes, current_entities, modified_entities,
                   steps, queue, applied, error, handle_calls,
                   removed_node_instances, deleted_nodes>>
    /\ UNCHANGED beside_node_vars

\* handle returns (modified_entities, list(nodes_dict.values())); the
\* instance stage fills the removed bucket
HandleReturn ==
    /\ pc = "handle"
    /\ queue = <<>>
    /\ error = NoError
    /\ pc' = "handled"
    /\ removed_node_instances' = RemovedInstances(StepsInOrder(steps), nodes)
    /\ UNCHANGED <<nodes, initial_nodes, current_entities, modified_entities,
                   steps, queue, applied, error, handle_calls, deleted_nodes>>
    /\ UNCHANGED beside_node_vars

\* finalize has run
Finalized(f) ==
    /\ nodes' = f.nodes
    /\ deleted_nodes' = f.deleted
    /\ error' = f.error
    /\ pc' = IF f.error = NoError THEN "finalized" ELSE "finalize_raised"

\* DeploymentUpdateNodeHandler.finalize
Finalize ==
    /\ pc = "handled"
    /\ Finalized(FinalizeResult(nodes, current_entities,
                                removed_node_instances))
    /\ UNCHANGED <<initial_nodes, current_entities, modified_entities, steps,
                   queue, applied, handle_calls, removed_node_instances>>
    /\ UNCHANGED beside_node_vars

\* handle called once more over the same update, before finalize
HandleAgain ==
    /\ pc = "handled"
    /\ handle_calls = 1
    /\ BeginHandle

Next ==
    \/ HandleBegin
    \/ HandleStep
    \/ HandleRaise
    \/ HandleReturn
    \/ Finalize

Spec == Init /\ [][Next]_vars

NextReplay ==
    \/ Next
    \/ HandleAgain

SpecReplay == Init /\ [][NextReplay]_vars

----------------------------------------------------------------------------
(* Actions of the instance reconciler *)

\* a handler has returned its {AFFECTED: ..., RELATED: ...}
PhaseHandled(change_type, p) ==
    /\ node_instances' = p.instances
    /\ sm_log' = p.log
    /\ modified_instances' =
           [modified_instances EXCEPT
               ![change_type] = Handled(p.affected, p.related)]

\* handle: one iteration of the loop over self._handlers_mapper
InstanceHandlePhase ==
    /\ ipc = "handle"
    /\ handle_queue # <<>>
    /\ IF updated_instances[Head(handle_queue)] # <<>>
       THEN PhaseHandled(Head(handle_queue),
                         Handler(Head(handle_queue),
                                 updated_instances[Head(handle_queue)],
                                 Phase(node_instances, <<>>, <<>>, sm_log)))
       ELSE UNCHANGED <<node_instances, sm_log, modified_instances>>
    /\ handle_queue' = Tail(handle_queue)
    /\ UNCHANGED <<initial_instances, updated_instances, rel_mappings,
                   extended_node_instances, reorder_queue, reduce_queue,
                   delete_queue, ipc, ierror>>
    /\ UNCHANGED beside_instance_vars

\* handle returns modified_instances, which the update keeps as
\* dep_update.deployment_update_node_instances
InstanceHandleReturn ==
    /\ ipc = "handle"
    /\ handle_queue = <<>>
    /\ ipc' = "handled"
    /\ UNCHANGED <<node_instances, initial_instances, updated_instances,
                   rel_mappings, modified_instances, handle_queue,
                   extended_node_instances, reorder_queue, reduce_queue,
                   delete_queue, sm_log, ierror>>
    /\ UNCHANGED beside_instance_vars

\* finalize, up to its first loop
InstanceFinalizeBegin ==
    /\ ipc = "handled"
    /\ extended_node_instances' = modified_instances["extended_and_related"].affected
    /\ reduce_queue' = modified_instances["reduced_and_related"].affected
    /\ delete_queue' = modified_instances["removed_and_related"].affected
    /\ reorder_queue' = RelOrderItems(rel_mappings)
    /\ ipc' = "finalize"
    /\ UNCHANGED <<node_instances, initial_instances, updated_instances,
                   rel_mappings, modified_instances, handle_queue, sm_log,
                   ierror>>
    /\ UNCHANGED beside_instance_vars

\* an iteration of a loop of finalize has run
FinalizeStepped(f) ==
    /\ node_instances' = f.instances
    /\ extended_node_instances' = f.extended
    /\ sm_log' = f.log
    /\ ierror' = f.error
    /\ ipc' = IF f.error = NoError THEN "finalize" ELSE "finalize_raised"

InstanceFinal ==
    Final(node_instances, extended_node_instances, sm_log, NoError)

\* a variant of finalize whose delete loop does not wait for the two calls
\* before it
DeleteAtAnyTime(reorder_left, reduce_left) == TRUE

\* finalize calls _reduce_node_instances when _reorder_relationships has
\* returned
ReduceMayStart(reorder_left) == reorder_left = <<>>

\* finalize enters its delete loop when _reorder_relationships and
\* _reduce_node_instances have both returned
DeleteMayStart(reorder_left, reduce_left) ==
    /\ reorder_left = <<>>
    /\ reduce_left = <<>>

ReorderStep ==
    /\ ipc = "finalize"
    /\ reorder_queue # <<>>
    /\ FinalizeStepped(ReorderRelationships(Head(reorder_queue)[1],
                                            Head(reorder_queue)[2],
                                            InstanceFinal))
    /\ reorder_queue' = Tail(reorder_queue)
    /\ UNCHANGED <<initial_instances, updated_instances, rel_mappings,
                   modified_instances, handle_queue, reduce_queue,
                   delete_queue>>
    /\ UNCHANGED beside_instance_vars

ReduceStep ==
    /\ ipc = "finalize"
    /\ ReduceMayStart(reorder_queue)
    /\ reduce_queue # <<>>
    /\ FinalizeStepped(ReduceNodeInstance(Head(reduce_queue), InstanceFinal))
    /\ reduce_queue' = Tail(reduce_queue)
    /\ UNCHANGED <<initial_instances, updated_instances, rel_mappings,
                   modified_instances, handle_queue, reorder_queue,
                   delete_queue>>
    /\ UNCHANGED beside_instance_vars

DeleteStep ==
    /\ ipc = "finalize"
    /\ DeleteMayStart(reorder_queue, reduce_queue)
    /\ delete_queue # <<>>
    /\ FinalizeStepped(DeleteNodeInstance(Head(delete_queue), InstanceFinal))
    /\ delete_queue' = Tail(delete_queue)
    /\ UNCHANGED <<initial_instances, updated_instances, rel_mappings,
                   modified_instances, handle_queue, reorder_queue,
                   reduce_queue>>
    /\ UNCHANGED beside_instance_vars

InstanceFinalizeReturn ==
    /\ ipc = "finalize"
    /\ DeleteMayStart(reorder_queue, reduce_queue)
    /\ delete_queue = <<>>
    /\ ipc' = "finalized"
    /\ UNCHANGED <<node_instances, initial_instances, updated_instances,
                   rel_mappings, modified_instances, handle_queue,
                   extended_node_instances, reorder_queue, reduce_queue,
                   delete_queue, sm_log, ierror>>
    /\ UNCHANGED beside_instance_vars

NextInst ==
    \/ InstanceHandlePhase
    \/ InstanceHandleReturn
    \/ InstanceFinalizeBegin
    \/ ReorderStep
    \/ ReduceStep
    \/ DeleteStep
    \/ InstanceFinalizeReturn

SpecInst == InitInst /\ [][NextInst]_vars

----------------------------------------------------------------------------
(* Actions of the dependency reconciler *)

\* DeploymentDependencies.handle
DependenciesHandle ==
    /\ dpc = "start"
    /\ dependencies' =
           HandleDependencyChanges(dependencies, plan_dependencies, TRUE,
                                   FALSE)
    /\ dpc' = "handled"
    /\ UNCHANGED <<initial_dependencies, plan_dependencies,
                   keep_old_deployment_dependencies>>
    /\ UNCHANGED beside_dependency_vars

\* DeploymentDependencies.finalize
DependenciesFinalize ==
    /\ dpc = "handled"
    /\ dependencies' =
           UpdateInterDeploymentDependencies(
               HandleDependencyChanges(dependencies, plan_dependencies, FALSE,
                                       keep_old_deployment_dependencies))
    /\ dpc' = "finalized"
    /\ UNCHANGED <<initial_dependencies, plan_dependencies,
                   keep_old_deployment_dependencies>>
    /\ UNCHANGED beside_dependency_vars

NextDep ==
    \/ DependenciesHandle
    \/ DependenciesFinalize

SpecDep == InitDep /\ [][NextDep]_vars

----------------------------------------------------------------------------
(* Actions of another writer of node instances, between handle and         *)
(* finalize of the instance reconciler                                     *)

MaxExternalWrites == 1

\* the write of another client: it reads the instance and stores it with
\* the next version
ExternallyWritten(instance) == [instance EXCEPT !.version = @ + 1]

\* what is known of such a write: the instance, and the length of the
\* storage log of the engine when it happened
ExternalWriteOf(id, at) == [id |-> id, at |-> at]

ExternalWrite ==
    /\ ipc = "handled"
    /\ Len(external_writes) < MaxExternalWrites
    /\ \E id \in DOMAIN node_instances :
           /\ node_instances' =
                  [node_instances EXCEPT ![id] = ExternallyWritten(@)]
           /\ external_writes' =
                  Append(external_writes, ExternalWriteOf(id, Len(sm_log)))
    /\ UNCHANGED <<initial_instances, updated_instances, rel_mappings,
                   modified_instances, handle_queue, extended_node_instances,
                   reorder_queue, reduce_queue, delete_queue, sm_log, ipc,
                   ierror>>
    /\ UNCHANGED <<node_vars, dependency_vars, operation_vars,
                   deployment_vars, counts_vars, purge_vars>>

NextInstExternal ==
    \/ NextInst
    \/ ExternalWrite

SpecInstExternal == InitInst /\ [][NextInstExternal]_vars

----------------------------------------------------------------------------
(* Actions of the merge into the stored resumable operations *)

\* no execution of the deployment is pending, started, cancelled or
\* failed, or none of them has a task graph: nothing is listed or merged
MergeSkip ==
    /\ mpc = "start"
    /\ in_flight # "graphs"
    /\ mpc' = "merged"
    /\ UNCHANGED <<operations, initial_operations, resumable_ops,
                   new_operation, in_flight, merge_queue, merge_log,
                   merge_error>>
    /\ UNCHANGED beside_operation_vars

\* resumable_ops = self.sm.list(...); new_op_inputs = new_operation['inputs']
MergeBegin ==
    /\ mpc = "start"
    /\ in_flight = "graphs"
    /\ new_operation.has_inputs
    /\ resumable_ops' =
           LoadedById(ListResumable(operations, GraphsInFlight(in_flight)))
    /\ merge_queue' = ListResumable(operations, GraphsInFlight(in_flight))
    /\ mpc' = "merge"
    /\ UNCHANGED <<operations, initial_operations, new_operation, in_flight,
                   merge_log, merge_error>>
    /\ UNCHANGED beside_operation_vars

\* new_operation['inputs'] raises KeyError, outside the try statement
MergeInputsMissing ==
    /\ mpc = "start"
    /\ in_flight = "graphs"
    /\ ~new_operation.has_inputs
    /\ resumable_ops' =
           LoadedById(ListResumable(operations, GraphsInFlight(in_flight)))
    /\ merge_error' = "KeyError"
    /\ mpc' = "merge_raised"
    /\ UNCHANGED <<operations, initial_operations, new_operation, in_flight,
                   merge_queue, merge_log>>
    /\ UNCHANGED beside_operation_vars

\* an iteration of the loop whose try statement raises KeyError
MergeKeyError ==
    /\ mpc = "merge"
    /\ merge_queue # <<>>
    /\ RaisesKeyError(Head(merge_queue))
    /\ resumable_ops' =
           [resumable_ops EXCEPT
               ![Head(merge_queue).id] =
                   TryMerge(Head(merge_queue), new_operation.inputs)]
    /\ merge_queue' = AfterKeyError(Tail(merge_queue))
    /\ UNCHANGED <<operations, initial_operations, new_operation, in_flight,
                   merge_log, merge_error, mpc>>
    /\ UNCHANGED beside_operation_vars

\* an iteration of the loop that merges the inputs and stores the operation
MergeStep ==
    /\ mpc = "merge"
    /\ merge_queue # <<>>
    /\ ~RaisesKeyError(Head(merge_queue))
    /\ resumable_ops' =
           [resumable_ops EXCEPT
               ![Head(merge_queue).id] =
                   TryMerge(Head(merge_queue), new_operation.inputs)]
    /\ operations' =
           UpdateOperation(operations,
                           TryMerge(Head(merge_queue), new_operation.inputs))
    /\ merge_log' = Append(merge_log, Head(merge_queue).id)
    /\ merge_queue' = Tail(merge_queue)
    /\ UNCHANGED <<initial_operations, new_operation, in_flight, merge_error,
                   mpc>>
    /\ UNCHANGED beside_operation_vars

\* the loop is over: _update_stored_operations returns
MergeReturn ==
    /\ mpc = "merge"
    /\ merge_queue = <<>>
    /\ mpc' = "merged"
    /\ UNCHANGED <<operations, initial_operations, resumable_ops,
                   new_operation, in_flight, merge_queue, merge_log,
                   merge_error>>
    /\ UNCHANGED beside_operation_vars

NextMerge ==
    \/ MergeSkip
    \/ MergeBegin
    \/ MergeInputsMissing
    \/ MergeKeyError
    \/ MergeStep
    \/ MergeReturn

SpecMerge == InitMerge /\ [][NextMerge]_vars

----------------------------------------------------------------------------
(* Actions of the deployment coordinator *)

\* handle, up to the loop: deployment.to_dict(), the sorted steps
DeploymentHandleBegin ==
    /\ depc = "start"
    /\ deployment_entities' = deployment
    /\ deployment_modified' = EmptyDeploymentModified
    /\ deployment_queue' = StepsInOrder(deployment_steps)
    /\ depc' = "handle"
    /\ UNCHANGED <<deployment, initial_deployment, deployment_steps,
                   deployment_applied, deployment_error>>
    /\ UNCHANGED beside_deployment_vars

\* an iteration of the loop has run
DeploymentStepHandled(acc) ==
    /\ deployment' = acc.nodes
    /\ deployment_entities' = acc.cur
    /\ deployment_modified' = acc.modified
    /\ deployment_error' = acc.error

\* one iteration of the loop of _fill_modified_entities
DeploymentHandleStep ==
    /\ depc = "handle"
    /\ deployment_queue # <<>>
    /\ LoopGoesOn(deployment_error)
    /\ DeploymentStepHandled(
           DeploymentFillStep(Acc(deployment, deployment_entities,
                                  deployment_modified, NoError),
                              Head(deployment_queue)))
    /\ deployment_queue' = Tail(deployment_queue)
    /\ deployment_applied' = Append(deployment_applied, Head(deployment_queue))
    /\ UNCHANGED <<initial_deployment, deployment_steps, depc>>
    /\ UNCHANGED beside_deployment_vars

\* the exception of a handler leaves handle
DeploymentHandleRaise ==
    /\ depc = "handle"
    /\ ~LoopGoesOn(deployment_error)
    /\ depc' = "handle_raised"
    /\ UNCHANGED <<deployment, initial_deployment, deployment_entities,
                   deployment_modified, deployment_steps, deployment_queue,
                   deployment_applied, deployment_error>>
    /\ UNCHANGED beside_deployment_vars

\* handle returns (modified_entities, deployment)
DeploymentHandleReturn ==
    /\ depc = "handle"
    /\ deployment_queue = <<>>
    /\ deployment_error = NoError
    /\ depc' = "handled"
    /\ UNCHANGED <<deployment, initial_deployment, deployment_entities,
                   deployment_modified, deployment_steps, deployment_queue,
                   deployment_applied, deployment_error>>
    /\ UNCHANGED beside_deployment_vars

\* DeploymentUpdateDeploymentHandler.finalize
DeploymentFinalize ==
    /\ depc = "handled"
    /\ deployment' = DeploymentFinalized(deployment)
    /\ depc' = "finalized"
    /\ UNCHANGED <<initial_deployment, deployment_entities,
                   deployment_modified, deployment_steps, deployment_queue,
                   deployment_applied, deployment_error>>
    /\ UNCHANGED beside_deployment_vars

NextDeployment ==
    \/ DeploymentHandleBegin
    \/ DeploymentHandleStep
    \/ DeploymentHandleRaise
    \/ DeploymentHandleReturn
    \/ DeploymentFinalize

SpecDeployment == InitDeployment /\ [][NextDeployment]_vars


----------------------------------------------------------------------------
(* Actions of the operations resource *)

\* OperationsId.patch, up to sm.get: the row is read and locked
PatchGet(r, operation_id, state) ==
    /\ Arrives(requests, r)
    /\ operation_id \in DOMAIN execution_operations
    /\ ~Locked(requests, operation_id)
    /\ requests' = [requests EXCEPT ![r] = Holding("patch", operation_id, state)]
    /\ UNCHANGED <<execution_operations, finished_operations,
                   total_operations>>
    /\ UNCHANGED beside_counts_vars

\* OperationsId.patch / delete: sm.get finds no row
GetNotFound(r, operation_id) ==
    /\ Arrives(requests, r)
    /\ operation_id \notin DOMAIN execution_operations
    /\ requests' = [requests EXCEPT ![r] = Request("raised")]
    /\ UNCHANGED <<execution_operations, finished_operations,
                   total_operations>>
    /\ UNCHANGED beside_counts_vars

\* OperationsId.patch, from the assignment of the state to the end of the
\* transaction
PatchCommit(r) ==
    /\ requests[r].rpc = "locked"
    /\ requests[r].kind = "patch"
    /\ execution_operations' =
           [execution_operations EXCEPT ![requests[r].operation_id] =
               PatchedInstance(@, requests[r].state)]
    /\ finished_operations' =
           ModifyCount(
               finished_operations,
               PatchFinishedDelta(
                   PatchedInstance(
                       execution_operations[requests[r].operation_id],
                       requests[r].state),
                   execution_operations[requests[r].operation_id].state))
    /\ requests' = [requests EXCEPT ![r] = Request("done")]
    /\ UNCHANGED total_operations
    /\ UNCHANGED beside_counts_vars

\* OperationsId.delete, up to sm.get: the row is read and locked
DeleteGet(r, operation_id) ==
    /\ Arrives(requests, r)
    /\ operation_id \in DOMAIN execution_operations
    /\ ~Locked(requests, operation_id)
    /\ requests' =
           [requests EXCEPT ![r] = Holding("delete", operation_id, NoState)]
    /\ UNCHANGED <<execution_operations, finished_operations,
                   total_operations>>
    /\ UNCHANGED beside_counts_vars

\* OperationsId.delete, from the test of is_nop to the end of the
\* transaction
DeleteCommit(r) ==
    /\ requests[r].rpc = "locked"
    /\ requests[r].kind = "delete"
    /\ finished_operations' =
           ModifyCount(
               finished_operations,
               DeleteFinishedDelta(
                   execution_operations[requests[r].operation_id]))
    /\ total_operations' =
           ModifyCount(
               total_operations,
               DeleteTotalDelta(
                   execution_operations[requests[r].operation_id]))
    /\ execution_operations' =
           DictDel(execution_operations, requests[r].operation_id)
    /\ requests' = [requests EXCEPT ![r] = Request("done")]
    /\ UNCHANGED beside_counts_vars

NextOperations ==
    \/ \E r \in 1..MaxRequests, operation_id \in 1..MaxExecutionOperations,
          state \in OperationStates \cup {NoState} :
           PatchGet(r, operation_id, state)
    \/ \E r \in 1..MaxRequests, operation_id \in 1..MaxExecutionOperations :
           GetNotFound(r, operation_id)
    \/ \E r \in 1..MaxRequests : PatchCommit(r)
    \/ \E r \in 1..MaxRequests, operation_id \in 1..MaxExecutionOperations :
           DeleteGet(r, operation_id)
    \/ \E r \in 1..MaxRequests : DeleteCommit(r)

SpecOperations == InitOperations /\ [][NextOperations]_vars


----------------------------------------------------------------------------
(* Actions of the executions resource *)

\* Executions.delete: a test of the request raises BadParametersError
DeleteBadParameters ==
    /\ xpc = "start"
    /\ BadParameters(delete_request)
    /\ purge_error' = "BadParametersError"
    /\ xpc' = "raised"
    /\ UNCHANGED <<executions, initial_executions, delete_request,
                   listed_executions, matched_executions, dep_creation_execs,
                   max_to_delete, deleted_count>>
    /\ UNCHANGED beside_purge_vars

\* Executions.delete, from the listing to the loop that deletes
DeleteList ==
    /\ xpc = "start"
    /\ ~BadParameters(delete_request)
    /\ listed_executions' = ListExecutions(executions, delete_request)
    /\ matched_executions' = Len(ListExecutions(executions, delete_request))
    /\ dep_creation_execs' =
           DepCreationExecs(ListExecutions(executions, delete_request))
    /\ max_to_delete' =
           IF delete_request.to_datetime # Absent THEN Absent
           ELSE MaxToDelete(ListExecutions(executions, delete_request),
                            delete_request)
    /\ xpc' = IF delete_request.to_datetime # Absent
              THEN "delete_older" ELSE "delete"
    /\ UNCHANGED <<executions, initial_executions, delete_request,
                   deleted_count, purge_error>>
    /\ UNCHANGED beside_purge_vars

\* an iteration of either loop in which _can_delete_execution raises KeyError
DeleteKeyError ==
    /\ xpc \in {"delete_older", "delete"}
    /\ listed_executions # <<>>
    /\ xpc = "delete_older" =>
           OlderThan(Head(listed_executions), delete_request)
    /\ CreationCountMissing(Head(listed_executions), dep_creation_execs)
    /\ purge_error' = "KeyError"
    /\ xpc' = "raised"
    /\ UNCHANGED <<executions, initial_executions, delete_request,
                   listed_executions, matched_executions, dep_creation_execs,
                   max_to_delete, deleted_count>>
    /\ UNCHANGED beside_purge_vars

\* an iteration of the loop over the executions older than to_datetime that
\* leaves the execution
DeleteOlderSkip ==
    /\ xpc = "delete_older"
    /\ listed_executions # <<>>
    /\ ~OlderThan(Head(listed_executions), delete_request)
    /\ listed_executions' = Tail(listed_executions)
    /\ UNCHANGED <<executions, initial_executions, delete_request,
                   matched_executions, dep_creation_execs, max_to_delete,
                   deleted_count, purge_error, xpc>>
    /\ UNCHANGED beside_purge_vars

\* an iteration of the loop over the executions older than to_datetime that
\* calls _can_delete_execution
DeleteOlder ==
    /\ xpc = "delete_older"
    /\ listed_executions # <<>>
    /\ OlderThan(Head(listed_executions), delete_request)
    /\ ~CreationCountMissing(Head(listed_executions), dep_creation_execs)
    /\ dep_creation_execs' =
           AfterCanDelete(Head(listed_executions), dep_creation_execs)
    /\ executions' =
           IF CanDeleteExecution(Head(listed_executions), dep_creation_execs)
           THEN DeleteExecution(executions, Head(listed_executions))
           ELSE executions
    /\ deleted_count' =
           IF CanDeleteExecution(Head(listed_executions), dep_creation_execs)
           THEN deleted_count + 1
           ELSE deleted_count
    /\ listed_executions' = Tail(listed_executions)
    /\ UNCHANGED <<initial_executions, delete_request, matched_executions,
                   max_to_delete, purge_error, xpc>>
    /\ UNCHANGED beside_purge_vars

\* an iteration of the loop of the request without to_datetime in which
\* _can_delete_execution returns False
DeleteKeep ==
    /\ xpc = "delete"
    /\ listed_executions # <<>>
    /\ ~CreationCountMissing(Head(listed_executions), dep_creation_execs)
    /\ ~CanDeleteExecution(Head(listed_executions), dep_creation_execs)
    /\ listed_executions' = Tail(listed_executions)
    /\ UNCHANGED <<executions, initial_executions, delete_request,
                   matched_executions, dep_creation_execs, max_to_delete,
                   deleted_count, purge_error, xpc>>
    /\ UNCHANGED beside_purge_vars

\* an iteration of the loop of the request without to_datetime that deletes
\* the execution, and the break
DeleteOne ==
    /\ xpc = "delete"
    /\ listed_executions # <<>>
    /\ ~CreationCountMissing(Head(listed_executions), dep_creation_execs)
    /\ CanDeleteExecution(Head(listed_executions), dep_creation_execs)
    /\ dep_creation_execs' =
           AfterCanDelete(Head(listed_executions), dep_creation_execs)
    /\ executions' = DeleteExecution(executions, Head(listed_executions))
    /\ deleted_count' = deleted_count + 1
    /\ listed_executions' =
           IF Breaks(delete_request, deleted_count + 1, max_to_delete)
           THEN <<>>
           ELSE Tail(listed_executions)
    /\ UNCHANGED <<initial_executions, delete_request, matched_executions,
                   max_to_delete, purge_error, xpc>>
    /\ UNCHANGED beside_purge_vars

\* return ListResult([{'count': deleted_count}], ...)
DeleteReturn ==
    /\ xpc \in {"delete_older", "delete"}
    /\ listed_executions = <<>>
    /\ xpc' = "returned"
    /\ UNCHANGED <<executions, initial_executions, delete_request,
                   listed_executions, matched_executions, dep_creation_execs,
                   max_to_delete, deleted_count, purge_error>>
    /\ UNCHANGED beside_purge_vars

NextExecutions ==
    \/ DeleteBadParameters
    \/ DeleteList
    \/ DeleteKeyError
    \/ DeleteOlderSkip
    \/ DeleteOlder
    \/ DeleteKeep
    \/ DeleteOne
    \/ DeleteReturn

SpecExecutions == InitExecutions /\ [][NextExecutions]_vars

----------------------------------------------------------------------------
(* Properties of the node coordinator and the entity handlers *)

\* the step the loop hands to its handler next
NextStep == Head(queue)

\* the loop is about to handle a step of this entity type and these actions
AboutToHandle(entity_type, actions) ==
    /\ pc = "handle"
    /\ queue # <<>>
    /\ error = NoError
    /\ NextStep.entity_type = entity_type
    /\ NextStep.action \in actions

LastApplied == applied[Len(applied)]

StagedRelationships(id) == current_entities[id].relationships

\* a relationship add or modify step that reaches _resize_relationships
ReachesResize ==
    /\ AboutToHandle("relationship", {"add", "modify"})
    /\ NextStep.node \in DOMAIN current_entities
    /\ NextStep.action = "add" =>
           /\ HasRawNode(NextStep.node)
           /\ NextStep.index < Len(deployment_plan[NextStep.node].relationships)

\* the index an add or modify step writes at
WrittenIndex(step) == IF step.action = "add" THEN step.index ELSE step.to_index

\* C1: RelationshipHandler.add and modify with target index i on a staged
\* list of length len <= i append exactly i - len + 1 None slots, so the new
\* length is i + 1, and then write the payload at index i; when i < len the
\* length stays the same.
C1_ResizeGrowsToIndex ==
    [][ReachesResize =>
          LET id == NextStep.node
              i == WrittenIndex(NextStep)
              old == StagedRelationships(id)
              new == current_entities'[id].relationships
          IN  /\ Len(new) = (IF Len(old) <= i THEN i + 1 ELSE Len(old))
              /\ Len(old) <= i => Len(new) - Len(old) = i - Len(old) + 1
              /\ \A k \in (Len(old) + 1)..i : new[k] = None
              /\ NextStep.action = "add" => new[i + 1] = NewRelationship(NextStep)
              /\ (NextStep.action = "modify" /\ error' = NoError) =>
                     new[i + 1] = nodes[id].relationships[NextStep.index + 1]
       ]_vars

\* C1 witness: add at index 1 of an empty staged list grew it by two slots.
C1_Witness ==
    /\ pc = "handle"
    /\ applied # <<>>
    /\ LastApplied = StepUniverse[15]
    /\ initial_nodes["web"].relationships = <<>>
    /\ Len(applied) = 1
    /\ StagedRelationships("web") = <<None, WebToVm>>

Topology(nodes_) ==
    [id \in DOMAIN nodes_ |->
        [relationships |-> nodes_[id].relationships,
         operations |-> nodes_[id].operations,
         properties |-> nodes_[id].properties,
         plugins |-> nodes_[id].plugins]]

\* the stored rows after one handle and finalize of the update
AppliedOnce(stored_steps) ==
    LET handled == HandleResult(initial_nodes, stored_steps)
    IN  FinalizeResult(handled.nodes, handled.cur,
                       RemovedInstances(StepsInOrder(stored_steps),
                                        handled.nodes))

\* C6: replaying the same step list twice against the same initial topology
\* (handle twice, then finalize) leaves the same persisted node topology as
\* applying it once.
C6_ReplayIsIdempotent ==
    (pc = "finalized" /\ handle_calls = 2) =>
        Topology(nodes) = Topology(AppliedOnce(steps).nodes)

StepOrdinals == {steps[i].ord : i \in 1..Len(steps)}

\* the scenario of C7: web holds no relationship, the update adds node db
\* and the relationship web -> db at index 0
NewNodeScenario ==
    /\ initial_nodes["web"].relationships = <<>>
    /\ StepOrdinals = {1, 11}

\* C7: when the plan adds a new node db and a relationship from the existing
\* node web, which has no relationships, at index 0, then after handle and
\* finalize web's persisted relationships are exactly the relationship to
\* db, and db's persisted and staged plugins are those of db in the plan.
C7_NewNodeWithRelationship ==
    (pc = "finalized" /\ NewNodeScenario) =>
        /\ nodes["web"].relationships = <<WebToDb>>
        /\ nodes["db"].plugins = deployment_plan["db"].plugins
        /\ current_entities["db"].plugins = deployment_plan["db"].plugins

\* C7 witness: the scenario, finalized, with the steps stored out of order.
C7_Witness ==
    /\ pc = "finalized"
    /\ NewNodeScenario
    /\ steps[1].ord = 11
    /\ "db" \in DOMAIN nodes
    /\ Len(nodes["web"].relationships) = 1

\* the stored orders of the same steps
Reorderings(l) ==
    {[i \in 1..Len(l) |-> l[p[i]]] : p \in Permutations(1..Len(l))}

RecordedCount ==
    Len(modified_entities["node"]) + Len(modified_entities["relationship"])
    + Len(modified_entities["operation"]) + Len(modified_entities["property"])
    + Len(modified_entities["plugin"])

\* C10: when a handler raises for a step, handle raises that same error, no
\* later step is applied to the staged snapshot or to storage, and no
\* identifier is recorded for the failing step or any later one.
C10_HandlerErrorAborts ==
    /\ [][(pc = "handle" /\ queue # <<>> /\ error = NoError) =>
            /\ error' = EntityUpdater(NextStep, nodes, current_entities).error
            /\ error' # NoError => modified_entities' = modified_entities
         ]_vars
    /\ [][(pc \in {"handle", "handle_raised"} /\ error # NoError) =>
            /\ UNCHANGED <<nodes, current_entities, modified_entities,
                           applied, queue, error>>
            /\ pc' = "handle_raised"
         ]_vars
    /\ [](pc = "handle_raised" =>
            /\ error # NoError
            /\ RecordedCount = Len(applied) - 1
            /\ Len(applied) + Len(queue) = Len(steps))

\* C10 witness: a handler raised after an earlier step had changed the
\* stored rows, with a later step still waiting.
C10_Witness ==
    /\ pc = "handle_raised"
    /\ queue # <<>>
    /\ Len(applied) = 2
    /\ nodes # initial_nodes

\* the nodes of the staged snapshot that finalize does not screen out
SettledIds == DOMAIN current_entities \ ExtractNodeIds(removed_node_instances)

\* a staged list without its None slots, the other entries in their order
NoneSlotsDropped(l) == SelectSeq(l, LAMBDA r : r # None)

\* C12: after finalize of the node coordinator every staged node that is
\* not in the removed set is stored with the staged relationships, None
\* slots dropped and order kept, and with the staged operations, plugins,
\* properties, number_of_instances and planned_number_of_instances.
C12_FinalizeStoresStaged ==
    pc = "finalized" =>
        \A id \in SettledIds :
            /\ id \in DOMAIN nodes
            /\ nodes[id].relationships =
                   NoneSlotsDropped(current_entities[id].relationships)
            /\ nodes[id].operations = current_entities[id].operations
            /\ nodes[id].plugins = current_entities[id].plugins
            /\ nodes[id].properties = current_entities[id].properties
            /\ nodes[id].number_of_instances =
                   current_entities[id].number_of_instances
            /\ nodes[id].planned_number_of_instances =
                   current_entities[id].planned_number_of_instances

\* C12 witness: finalize has stored a node whose staged relationship list
\* held a None slot, and the stored list differs from the one the update
\* met.
C12_Witness ==
    /\ pc = "finalized"
    /\ \E id \in SettledIds :
           /\ \E k \in DOMAIN current_entities[id].relationships :
                  current_entities[id].relationships[k] = None
           /\ id \in DOMAIN initial_nodes
           /\ nodes[id].relationships # initial_nodes[id].relationships

\* the nodes a node remove step of this handle has removed
RemovedByStep ==
    {applied[k].node : k \in
        {j \in DOMAIN applied :
            /\ applied[j].entity_type = "node"
            /\ applied[j].action = "remove"
            /\ (j < Len(applied) \/ error = NoError)}}

\* what a node remove step does to the staged snapshot and to the rows
NodeRemoveStep ==
    (AboutToHandle("node", {"remove"}) /\ error' = NoError) =>
        /\ nodes' = nodes
        /\ NextStep.node \in DOMAIN current_entities
        /\ current_entities' = DictDel(current_entities, NextStep.node)

\* the row of a removed node between its step and finalize, and after
RowOfRemovedNode ==
    \A n \in RemovedByStep :
        /\ pc \in {"handle", "handle_raised", "handled"} => n \in DOMAIN nodes
        /\ pc = "finalized" => n \notin DOMAIN nodes

\* C13: a node remove step deletes the entry of the node in the staged
\* snapshot and nothing else; the persisted row of the node exists in every
\* state from that step until finalize of the node coordinator, and does
\* not exist once finalize has completed.
C13_RemoveIsStagedUntilFinalize ==
    /\ []RowOfRemovedNode
    /\ [][NodeRemoveStep]_vars

\* C13 witness: finalize has completed after a node remove step of vm, and
\* the row of vm, stored when the update began, is gone.
C13_Witness ==
    /\ pc = "finalized"
    /\ "vm" \in RemovedByStep
    /\ "vm" \in DOMAIN initial_nodes
    /\ "vm" \notin DOMAIN nodes

\* the three conditions under which a plugin change is reported
HostAgentPluginOfCompute(plugin, node) ==
    /\ \E k \in DOMAIN node.type_hierarchy :
           node.type_hierarchy[k] = COMPUTE_NODE_TYPE
    /\ plugin.install = TRUE
    /\ plugin.executor = HOST_AGENT

\* the plugin list a plugin step works on, and the plugin it removes
PluginsBefore == nodes[NextStep.node][NextStep.key]
RemovedPlugin == PluginsBefore[IndexOfName(PluginsBefore, NextStep.name)]

\* the dict the handler of the step has returned
Returned == modified_entities'[NextStep.entity_type][
                Len(modified_entities'[NextStep.entity_type])]

\* the report and the list after an add: the plan's plugin is appended
PluginAdded ==
    /\ ("add" \in DOMAIN Returned) <=>
           HostAgentPluginOfCompute(RawPlugin(NextStep), nodes[NextStep.node])
    /\ "add" \in DOMAIN Returned =>
           Returned["add"] = [node |-> NextStep.node,
                              plugin |-> RawPlugin(NextStep)]
    /\ "remove" \notin DOMAIN Returned
    /\ nodes'[NextStep.node][NextStep.key] =
           Append(PluginsBefore, RawPlugin(NextStep))

\* the report and the list after a remove: the named plugin is taken out
PluginRemoved ==
    /\ ("remove" \in DOMAIN Returned) <=>
           HostAgentPluginOfCompute(RemovedPlugin, nodes[NextStep.node])
    /\ "remove" \in DOMAIN Returned =>
           Returned["remove"] = [node |-> NextStep.node,
                                 plugin |-> RemovedPlugin]
    /\ "add" \notin DOMAIN Returned
    /\ Len(nodes'[NextStep.node][NextStep.key]) = Len(PluginsBefore) - 1
    /\ nodes'[NextStep.node][NextStep.key] # PluginsBefore

\* the reports and the list after a modify, a removal and then an addition
PluginModified ==
    /\ ("remove" \in DOMAIN Returned) <=>
           HostAgentPluginOfCompute(RemovedPlugin, nodes[NextStep.node])
    /\ ("add" \in DOMAIN Returned) <=>
           HostAgentPluginOfCompute(RawPlugin(NextStep), nodes[NextStep.node])
    /\ nodes'[NextStep.node][NextStep.key] =
           Append(SelectSeq(PluginsBefore, LAMBDA q : q # RemovedPlugin),
                  RawPlugin(NextStep))

\* a plugin step that its handler completes
PluginStep ==
    (AboutToHandle("plugin", {"add", "remove", "modify"})
     /\ error' = NoError) =>
        /\ CASE NextStep.action = "add" -> PluginAdded
             [] NextStep.action = "remove" -> PluginRemoved
             [] NextStep.action = "modify" -> PluginModified
        /\ current_entities'[NextStep.node][NextStep.key] =
               nodes'[NextStep.node][NextStep.key]

\* C15: PluginHandler reports an added plugin under 'add', or a removed one
\* under 'remove', exactly when the node has the compute type in its
\* type_hierarchy, the plugin's install flag is set and its executor is the
\* host agent; the plugin list of the node is changed whether or not the
\* change is reported.
C15_ReportedIffInstallable == [][PluginStep]_vars

\* what the plugin steps applied so far have returned
PluginReturns == modified_entities["plugin"]

\* C15 witness: one handle has run a plugin step that reported its change
\* and one that changed the list of vm without a report.
C15_Witness ==
    /\ pc = "handled"
    /\ \E k \in DOMAIN PluginReturns : DOMAIN PluginReturns[k] # {}
    /\ \E k \in DOMAIN PluginReturns : DOMAIN PluginReturns[k] = {}
    /\ nodes["vm"].plugins # initial_nodes["vm"].plugins

\* the fields of a staged node beside its plugins
FieldsBesidePlugins ==
    {"id", "type_hierarchy", "relationships", "plugins_to_install",
     "properties", "operations", "number_of_instances",
     "planned_number_of_instances"}

\* the target nodes of a relationship add or a node add step
TargetsOf(step) ==
    IF step.entity_type = "node"
    THEN {deployment_plan[step.node].relationships[k].target_id :
             k \in DOMAIN deployment_plan[step.node].relationships}
    ELSE {TargetId(step, nodes)}

\* the staged snapshot of node t keeps every field beside its plugins
StagedBesidePluginsKept(t) ==
    /\ t \in DOMAIN current_entities'
    /\ \A f \in FieldsBesidePlugins :
           current_entities'[t][f] = current_entities[t][f]

\* a relationship add or node add step that its handler completes
TargetStep ==
    (/\ \/ AboutToHandle("relationship", {"add"})
        \/ AboutToHandle("node", {"add"})
     /\ HasRawNode(NextStep.node)
     /\ applied' # applied
     /\ error' = NoError) =>
        \A t \in (TargetsOf(NextStep) \ {NextStep.node})
                   \cap DOMAIN current_entities :
            StagedBesidePluginsKept(t)

\* C21: a relationship add or a node add step changes at most the plugins
\* field of the staged snapshot of its target node; every other staged
\* field of the target, the staged-only effects of earlier steps among
\* them, is as it was before the step.
C21_TargetKeepsStagedFields == [][TargetStep]_vars

\* the staged list keeps slot k (1-based) of the list before the step, or
\* holds None there if the list did not reach it
SlotKept(old, new, k) ==
    IF k <= Len(old) THEN new[k] = old[k] ELSE new[k] = None

\* a relationship add or modify step that writes its slot
SlotWritingStep ==
    (ReachesResize /\ error' = NoError /\ applied' # applied) =>
        /\ Len(current_entities'[NextStep.node].relationships) >=
               Len(StagedRelationships(NextStep.node))
        /\ \A k \in DOMAIN current_entities'[NextStep.node].relationships :
               k # WrittenIndex(NextStep) + 1 =>
                   SlotKept(StagedRelationships(NextStep.node),
                            current_entities'[NextStep.node].relationships, k)

\* C22: RelationshipHandler.add and RelationshipHandler.modify, writing at
\* index i, leave every other slot of the staged relationships list of the
\* node with the content it had, at the index it had; no slot is shifted.
C22_OtherSlotsKeepIndex == [][SlotWritingStep]_vars

\* C22 witness: a step has written slot 0 of a staged list whose slot 1
\* holds the stored relationship it held before.
C22_Witness ==
    /\ pc = "handle"
    /\ applied # <<>>
    /\ error = NoError
    /\ LastApplied \in {StepUniverse[11], StepUniverse[16]}
    /\ Len(applied) = 1
    /\ initial_nodes["web"].relationships = <<WebToVmOld, WebToVm>>
    /\ StagedRelationships("web")[1] # WebToVmOld
    /\ StagedRelationships("web")[2] = WebToVm

\* every step applied so far is a relationship remove or modify step
OnlyStagedSteps ==
    \A k \in DOMAIN applied :
        /\ applied[k].entity_type = "relationship"
        /\ applied[k].action \in {"remove", "modify"}

\* a relationship remove or modify step leaves the persisted nodes alone
StagedOnlyStep ==
    AboutToHandle("relationship", {"remove", "modify"}) => nodes' = nodes

\* up to finalize the persisted nodes are the initial ones; finalize stores
\* the staged relationships, without their None slots
PersistedByFinalize ==
    (applied # <<>> /\ OnlyStagedSteps) =>
        /\ pc \in {"handle", "handle_raised", "handled"} =>
               nodes = initial_nodes
        /\ pc = "finalized" =>
               \A n \in DOMAIN nodes :
                   nodes[n].relationships =
                       SeqFilterTruthy(StagedRelationships(n))

\* C23: RelationshipHandler.remove and RelationshipHandler.modify change
\* the staged snapshot only: the persisted relationships of every node are
\* the same before and after the step, and the persisted model shows the
\* removal or the move only once finalize has run.
C23_RemoveAndModifyAreStaged ==
    []PersistedByFinalize /\ [][StagedOnlyStep]_vars

\* C23 witness: finalize has persisted the removal of slot 0 that a remove
\* step had staged.
C23_Witness ==
    /\ pc = "finalized"
    /\ applied = <<StepUniverse[10]>>
    /\ initial_nodes["web"].relationships = <<WebToVmOld, WebToVm>>
    /\ StagedRelationships("web") = <<None, WebToVm>>
    /\ nodes["web"].relationships = <<WebToVm>>

\* the field of a node that holds the entities of a property or operation
\* step
EntityField(step) ==
    IF step.entity_type = "property" THEN "properties" ELSE "operations"

\* the new value of a property or operation step, at its path
RawValueOf(step) ==
    IF step.entity_type = "property" THEN RawPropertyValue(step)
    ELSE RawOperationValue(step)

\* a nested value changed only at the first breadcrumb
ChangedAtPath(previous, crumbs, value) ==
    [previous EXCEPT !.sub = DictSet(@, crumbs[1], value.v)]

\* the persisted and the staged value of the entity after the step are
\* equal; under breadcrumbs each is its previous value changed at the path
ValueSetAtPath(node, field, name) ==
    /\ nodes'[node][field][name] = current_entities'[node][field][name]
    /\ NextStep.crumbs # <<>> =>
           /\ nodes'[node][field][name] =
                  ChangedAtPath(nodes[node][field][name], NextStep.crumbs,
                                RawValueOf(NextStep))
           /\ current_entities'[node][field][name] =
                  ChangedAtPath(current_entities[node][field][name],
                                NextStep.crumbs, RawValueOf(NextStep))

\* a property, operation or plugin add / modify step that its handler
\* completes
SetValueStep ==
    /\ (/\ \/ AboutToHandle("property", {"add", "modify"})
           \/ AboutToHandle("operation", {"add", "modify"})
        /\ error' = NoError) =>
           ValueSetAtPath(NextStep.node, EntityField(NextStep), NextStep.name)
    /\ (AboutToHandle("plugin", {"add", "modify"}) /\ error' = NoError) =>
           nodes'[NextStep.node][NextStep.key] =
               current_entities'[NextStep.node][NextStep.key]

\* C24: after a property, operation or plugin add / modify step the value of
\* the addressed entity in the persisted node equals its value in the
\* staged snapshot; under non-empty breadcrumbs both are the previous value
\* changed at the addressed path only, the sibling keys kept.
C24_PersistedEqualsStaged == [][SetValueStep]_vars


\* the removed set holds several node instances of one removed node
SeveralInstancesRemoved ==
    \E i, j \in DOMAIN removed_node_instances :
        /\ i # j
        /\ removed_node_instances[i].node_id =
               removed_node_instances[j].node_id

\* how many times finalize deleted the node
TimesDeleted(id) ==
    Cardinality({k \in DOMAIN deleted_nodes : deleted_nodes[k] = id})

\* C34: when the removed set holds several node instances of the same
\* removed node, DeploymentUpdateNodeHandler.finalize completes without
\* error and deletes the removed node exactly once.
C34_FinalizeDeletesRemovedNodeOnce ==
    (pc \in {"finalized", "finalize_raised"} /\ SeveralInstancesRemoved) =>
        /\ pc = "finalized"
        /\ error = NoError
        /\ \A i \in DOMAIN removed_node_instances :
              TimesDeleted(removed_node_instances[i].node_id) = 1

----------------------------------------------------------------------------
(* Properties of the instance reconciler *)

Range(l) == {l[k] : k \in 1..Len(l)}

\* the relationships the plan modification lists for an instance in a
\* bucket, <<>> when it does not list the instance with that modification
ListedFor(change_type, modification, id) ==
    LET bucket == updated_instances[change_type]
        listed == SelectSeq(bucket, LAMBDA raw : raw.id = id
                                         /\ raw.modification = modification)
    IN  IF listed = <<>> THEN <<>> ELSE listed[1].relationships

ExtensionOf(id) == ListedFor("extended_and_related", "extended", id)

ReductionOf(id) == ListedFor("reduced_and_related", "reduced", id)

ExtendedAndReduced(id) ==
    /\ id \in DOMAIN initial_instances
    /\ ExtensionOf(id) # <<>>
    /\ ReductionOf(id) # <<>>

OldRelationships(id) == initial_instances[id].relationships

WithoutRelIndex(r) == [r EXCEPT !.rel_index = NoIndex]

\* the old relationships to the targets the instance is reduced by
ToReducedTargets(id) ==
    {r \in Range(OldRelationships(id)) :
        r.target_id \in Targets(ReductionOf(id))}

FirstReduced(id) ==
    SelectSeq(updated_instances["reduced_and_related"],
              LAMBDA raw : raw.modification = "reduced")[1].id = id

\* the relationships the instance is stored with when the Reduce step of
\* finalize reaches it: the old ones followed by the extended ones in
\* rel_index order, as the Reorder step left them
StoredAtReduce(id) ==
    LET extended == OldRelationships(id) \o SortedByRelIndex(ExtensionOf(id))
        node_id == initial_instances[id].node_id
    IN  IF /\ node_id \in DOMAIN rel_mappings
           /\ id = FirstInstanceId(InstanceIdsOf(node_id, initial_instances))
        THEN Reordered(rel_mappings[node_id], extended).relationships
        ELSE extended

ReduceAndExtendScenario ==
    /\ OldRelationships("web_1") = <<ToDb>>
    /\ ReductionOf("web_1") = <<ToDb>>
    /\ ExtensionOf("web_1") = <<ToCache(1)>>
    /\ ReductionOf("web_2") = <<>>
    /\ ExtensionOf("web_2") = <<>>
    /\ rel_mappings = EmptyDict

\* C4: if a reduce removes the relationship at rel_index 0 of web_1 and an
\* unrelated extend adds a new relationship at rel_index 1 to web_1 in the
\* same update, then after handle and finalize web_1 has exactly one
\* relationship, the newly extended one.
C4_ReduceAndExtendSameInstance ==
    (ipc = "finalized" /\ ReduceAndExtendScenario) =>
        /\ Len(node_instances["web_1"].relationships) = 1
        /\ node_instances["web_1"].relationships[1].target_id = "cache_1"
        /\ WithoutRelIndex(node_instances["web_1"].relationships[1]) =
               ToCache(NoIndex)

\* C4 witness: the scenario has been finalized.
C4_Witness ==
    /\ ipc = "finalized"
    /\ ReduceAndExtendScenario
    /\ Len(sm_log) >= 4
    /\ node_instances["web_1"].version # initial_instances["web_1"].version

\* the node instances the update removes
RemovedIds ==
    {raw.id : raw \in
        {r \in Range(updated_instances["removed_and_related"]) :
            r.modification = "removed"}}

CallsOf(op) == {i \in DOMAIN sm_log : sm_log[i].op = op}

\* C11: finalize of the instance reconciler reorders, then reduces, then
\* deletes: once a removed node instance has been deleted no reorder and no
\* reduce of that finalize is left to do, and no write of a node instance
\* follows a delete.
C11_DeleteIsLast ==
    /\ CallsOf("delete") # {} =>
           /\ reorder_queue = <<>>
           /\ reduce_queue = <<>>
    /\ \A d \in CallsOf("delete") :
           \A u \in CallsOf("update") : u < d

\* C11 witness: a finalize that had a relationship order to store, an
\* instance to reduce and an instance to delete has done all three.
C11_Witness ==
    /\ ipc = "finalized"
    /\ rel_mappings # EmptyDict
    /\ modified_instances["reduced_and_related"].affected # <<>>
    /\ CallsOf("delete") # {}
    /\ Cardinality(CallsOf("update")) >= 2

\* the call at this position of the storage log changes a stored instance
Mutates(i) == sm_log[i].op \in {"update", "delete"}

\* a locking read of the same instance stands earlier in the storage log
LockedBefore(i) ==
    \E j \in 1..(i - 1) :
        /\ sm_log[j].op = "get_locking"
        /\ sm_log[j].id = sm_log[i].id

\* C17: every update and every delete of a stored node instance by handle
\* or finalize of the instance reconciler comes after a read of that
\* instance with locking=True in the same run.
C17_MutationsAreLocked ==
    \A i \in DOMAIN sm_log : Mutates(i) => LockedBefore(i)

\* the updates of this instance that the step appends to the storage log
WritesOf(id) ==
    {i \in (Len(sm_log) + 1)..Len(sm_log') :
        sm_log'[i].op = "update" /\ sm_log'[i].id = id}

\* what a step of the reconciler does to the version of the instances it
\* writes
VersionStep ==
    \A id \in DOMAIN node_instances \cap DOMAIN node_instances' :
        WritesOf(id) # {} =>
            node_instances'[id].version =
                node_instances[id].version + Cardinality(WritesOf(id))

\* C18: every write of a stored node instance by the reconciler (extend in
\* handle, reorder and reduce in finalize) raises the version of that
\* instance by exactly 1.
C18_WriteBumpsVersion == [][VersionStep]_vars

\* handle of the reconciler had read the instance before the other writer
\* wrote it
ReadInHandle(w) ==
    \E i \in 1..w.at :
        /\ sm_log[i].id = w.id
        /\ sm_log[i].op \in {"get", "get_locking"}

\* finalize of the reconciler has written the instance after the other
\* writer wrote it
WrittenInFinalize(w) ==
    \E j \in (w.at + 1)..Len(sm_log) :
        /\ sm_log[j].id = w.id
        /\ sm_log[j].op = "update"

\* C19: when another writer changes a node instance, raising its version,
\* after handle of the reconciler has read it, finalize does not write that
\* instance: the update is aborted with a concurrent-modification error
\* instead.
C19_ExternalWriteDetected ==
    \A k \in DOMAIN external_writes :
        ReadInHandle(external_writes[k]) =>
            ~WrittenInFinalize(external_writes[k])

\* the relationships of an instance, without their rel_index
PersistedWithoutRelIndex(id) ==
    {WithoutRelIndex(r) : r \in Range(node_instances[id].relationships)}

\* C25: for every node instance that is both reduced and extended in one
\* update, whatever its position in the reduced list, the relationships the
\* extend added are among its persisted relationships after finalize.
C25_ExtensionSurvivesReduce ==
    ipc = "finalized" =>
        \A id \in DOMAIN node_instances :
            ExtendedAndReduced(id) =>
                \A e \in Range(ExtensionOf(id)) :
                    WithoutRelIndex(e) \in PersistedWithoutRelIndex(id)

RECURSIVE IsSubSequence(_, _)
\* list s is list t with some of its elements left out
IsSubSequence(s, t) ==
    IF s = <<>> THEN TRUE
    ELSE IF t = <<>> THEN FALSE
    ELSE IF Head(s) = Head(t) THEN IsSubSequence(Tail(s), Tail(t))
    ELSE IsSubSequence(s, Tail(t))

\* the instance the next iteration of _reduce_node_instances works on
NextReduced == Head(reduce_queue).id

\* an iteration of the loop of _reduce_node_instances
ReduceIteration ==
    (ipc = "finalize" /\ reduce_queue' # reduce_queue /\ ierror' = NoError) =>
        /\ IsSubSequence(
               node_instances'[NextReduced].relationships,
               CleanRelationshipIndexField(
                   node_instances[NextReduced].relationships))
        /\ \A r \in Range(node_instances'[NextReduced].relationships) :
               r.rel_index = NoIndex
        /\ \A id \in DOMAIN node_instances \ {NextReduced} :
               node_instances'[id] = node_instances[id]

\* C26: after the Reduce step the relationships of every reduced instance
\* are a sub-sequence of the relationships it was persisted with when the
\* step reached it, and none of them carries a rel_index.
C26_ReduceKeepsSubSequence == [][ReduceIteration]_vars

\* C26 witness: web_1, stored with relationships to db_1 and vm_1, extended
\* at rel_index 1 and reduced by db_1, is left with the one to vm_1 and the
\* extended one, without rel_index.
C26_Witness ==
    /\ ipc = "finalized"
    /\ OldRelationships("web_1") = <<ToDb, ToVm>>
    /\ ReductionOf("web_1") = <<ToDb>>
    /\ ExtensionOf("web_1") = <<ToCache(1)>>
    /\ node_instances["web_1"].relationships = <<ToVm, ToCache(NoIndex)>>

\* the node and the (old_index, new_index) pairs of the next iteration of
\* _reorder_relationships, and the instance it reads
NextReorderedNode == Head(reorder_queue)[1]
NextIndicesList == Head(reorder_queue)[2]
NextReordered ==
    FirstInstanceId(InstanceIdsOf(NextReorderedNode, node_instances))

\* the positions (0-based) of a list whose relationship carries rel_index
Carrying(relationships) ==
    {i \in 0..(Len(relationships) - 1) :
        relationships[i + 1].rel_index # NoIndex}

\* the pairs and the rel_index fields name each final index once, and the
\* pairs move relationships that carry no rel_index
ConsistentOrder(indices_list, relationships) ==
    /\ \A k, l \in DOMAIN indices_list :
           k # l => indices_list[k][2] # indices_list[l][2]
    /\ \A i, j \in Carrying(relationships) :
           i # j => relationships[i + 1].rel_index #
                        relationships[j + 1].rel_index
    /\ \A k \in DOMAIN indices_list :
           /\ indices_list[k][1] \notin Carrying(relationships)
           /\ \A i \in Carrying(relationships) :
                  indices_list[k][2] # relationships[i + 1].rel_index

\* list new holds relationship r at the 0-based index
HeldAt(new, index, r) == index < Len(new) /\ new[index + 1] = r

\* the list new is the list old reordered as the claim states
OrderedAsMapped(indices_list, old, new) ==
    /\ \A k \in DOMAIN indices_list :
           HeldAt(new, indices_list[k][2], old[indices_list[k][1] + 1])
    /\ \A i \in Carrying(old) : HeldAt(new, old[i + 1].rel_index, old[i + 1])
    /\ \A k \in DOMAIN new : new[k] # NoRelationship

\* an iteration of the loop of _reorder_relationships that stores its list
ReorderIteration ==
    (/\ ipc = "finalize"
     /\ reorder_queue' # reorder_queue
     /\ ierror' = NoError
     /\ ConsistentOrder(NextIndicesList,
                        node_instances[NextReordered].relationships)) =>
        OrderedAsMapped(NextIndicesList,
                        node_instances[NextReordered].relationships,
                        node_instances'[NextReordered].relationships)

\* C27: after the Reorder step, for each node in the mapping, the
\* relationship that was at old_index is at new_index for every
\* (old_index, new_index) pair, every relationship that carries a rel_index
\* is at that index, and no None placeholder remains in the list.
C27_ReorderPlacesEveryRelationship == [][ReorderIteration]_vars

\* how many slots of a list hold relationship r
Occurrences(relationships, r) ==
    Cardinality({k \in DOMAIN relationships : relationships[k] = r})

\* list new is list old in another order
IsPermutation(old, new) ==
    \A r \in Range(old) \cup Range(new) :
        Occurrences(new, r) = Occurrences(old, r)

\* an iteration of the loop of _reorder_relationships permutes its list
PermutingIteration ==
    (/\ ipc = "finalize"
     /\ reorder_queue' # reorder_queue
     /\ ierror' = NoError) =>
        IsPermutation(node_instances[NextReordered].relationships,
                      node_instances'[NextReordered].relationships)

\* C28: the Reorder step only permutes: every relationship the instance
\* held before the step is in its list exactly once after it, for every
\* combination of moves and of relationships that carry a rel_index.
C28_ReorderOnlyPermutes == [][PermutingIteration]_vars

\* the instances of the node of the next iteration whose list the loop body
\* can reorder without an IndexError
Reorderable ==
    {id \in InstanceIdsOf(NextReorderedNode, node_instances) :
        Reordered(NextIndicesList,
                  node_instances[id].relationships).error = NoError}

\* an iteration of the loop of _reorder_relationships reorders every
\* instance of its node
EveryInstanceIteration ==
    (/\ ipc = "finalize"
     /\ reorder_queue' # reorder_queue
     /\ ierror' = NoError) =>
        \A id \in Reorderable :
            node_instances'[id].relationships =
                Reordered(NextIndicesList,
                          node_instances[id].relationships).relationships

\* C29: when a node in the mapping has several node instances, the Reorder
\* step reorders the relationships of every instance of that node, not of
\* one of them only.
C29_ReorderCoversEveryInstance == [][EveryInstanceIteration]_vars

\* the bucket the Extended phase of handle works on
ExtendedBucket == updated_instances["extended_and_related"]

\* list new is list old followed by the relationships of raw, these in
\* ascending order of rel_index (0 where the key is absent)
ExtendedInOrder(old, new, raw) ==
    /\ Len(new) = Len(old) + Len(raw.relationships)
    /\ SubSeq(new, 1, Len(old)) = old
    /\ IsPermutation(raw.relationships, SubSeq(new, Len(old) + 1, Len(new)))
    /\ \A i, j \in (Len(old) + 1)..Len(new) :
           i < j => RelIndexKey(new[i]) <= RelIndexKey(new[j])

\* the identifiers the bucket marks 'extended'
MarkedExtended ==
    {ExtendedBucket[k].id :
        k \in {k \in DOMAIN ExtendedBucket :
                  ExtendedBucket[k].modification = "extended"}}

\* the Extended phase of handle
ExtendedPhase ==
    (/\ ipc = "handle"
     /\ handle_queue # <<>>
     /\ Head(handle_queue) = "extended_and_related"
     /\ handle_queue' # handle_queue) =>
        /\ \A k \in DOMAIN ExtendedBucket :
               IF ExtendedBucket[k].modification = "extended"
               THEN ExtendedInOrder(
                        node_instances[ExtendedBucket[k].id].relationships,
                        node_instances'[ExtendedBucket[k].id].relationships,
                        ExtendedBucket[k])
               ELSE ExtendedBucket[k] \in
                        Range(modified_instances'[
                                  "extended_and_related"].related)
        /\ \A id \in DOMAIN node_instances \ MarkedExtended :
               node_instances'[id] = node_instances[id]
        /\ \A k \in DOMAIN sm_log' :
               k > Len(sm_log) => sm_log'[k].id \in MarkedExtended
        /\ {raw.id : raw \in Range(modified_instances'[
                                   "extended_and_related"].affected)} =
               MarkedExtended

\* C30: the Extended phase sets the persisted relationships of each instance
\* marked 'extended' to its previous relationships, unchanged and in their
\* order, followed by the new relationships in ascending rel_index order;
\* an instance that is not marked 'extended' is classified as related and
\* is not written.
C30_ExtendAppendsInRelIndexOrder == [][ExtendedPhase]_vars

\* C30 witness: the Extended phase has appended the two new relationships
\* of web_1, listed in descending rel_index, in ascending order, and has
\* classified cache_1 as related.
C30_Witness ==
    /\ ipc = "handle"
    /\ handle_queue = <<"reduced_and_related", "removed_and_related">>
    /\ OldRelationships("web_1") = <<ToDb, ToVm>>
    /\ ExtensionOf("web_1") = <<ToCache(2), ToQueue(1)>>
    /\ node_instances["web_1"].relationships =
           <<ToDb, ToVm, ToQueue(1), ToCache(2)>>
    /\ modified_instances["extended_and_related"].related # <<>>
    /\ node_instances["cache_1"] = initial_instances["cache_1"]

\* the old relationships of an instance to a target it is reduced by that
\* the reduce request does not name
KeptToReducedTarget(id) ==
    {r \in ToReducedTargets(id) :
        \A q \in Range(ReductionOf(id)) :
            WithoutRelIndex(q) # WithoutRelIndex(r)}

\* C31: reducing an instance by a relationship to a target removes only the
\* relationships the reduce request names: another relationship of the
\* instance to the same target, which is not being removed, is still among
\* its relationships after finalize.
C31_ReduceRemovesOnlyNamed ==
    ipc = "finalized" =>
        \A id \in DOMAIN node_instances \cap DOMAIN initial_instances :
            ReductionOf(id) # <<>> =>
                \A r \in KeptToReducedTarget(id) :
                    WithoutRelIndex(r) \in PersistedWithoutRelIndex(id)

----------------------------------------------------------------------------
(* Properties of the dependency reconciler *)

\* C8: if a dependency created by a shared_resource node is stored for the
\* source deployment but absent from the new plan, and
\* keep_old_deployment_dependencies is False, then its row no longer exists
\* after handle and finalize have both run.
C8_SharedResourceRowDeleted ==
    (dpc = "finalized" /\ ~keep_old_deployment_dependencies) =>
        \A creator \in initial_dependencies :
            (StartsWith(creator, SHARED_RESOURCE)
             /\ creator \notin plan_dependencies) =>
                creator \notin dependencies

\* what finalize of the dependency reconciler does to the rows when the
\* update keeps its old dependencies
FinalizeKeepsRows ==
    (dpc = "handled" /\ dpc' = "finalized"
     /\ keep_old_deployment_dependencies) =>
        dependencies \subseteq dependencies'

\* C16: with keep_old_deployment_dependencies true, finalize of the
\* dependency reconciler deletes no dependency row, not even a row of a
\* 'nodes' creator that the new plan no longer has.
C16_KeepOldDeletesNothing == [][FinalizeKeepsRows]_vars

\* C16 witness: finalize has run with the flag set, and a stored row of a
\* 'nodes' creator that is absent from the new plan is still there.
C16_Witness ==
    /\ dpc = "finalized"
    /\ keep_old_deployment_dependencies
    /\ \E creator \in initial_dependencies :
           /\ StartsWith(creator, NODES)
           /\ creator \notin plan_dependencies
           /\ creator \in dependencies


\* a pass of the dependency reconciler keeps the rows whose creator the new
\* plan still has
PassKeepsPlanned ==
    (dependencies \cap plan_dependencies) \subseteq dependencies'

\* C35: neither pass of the dependency reconciler deletes a row whose
\* dependency_creator is still present in the new plan: the pass whose query
\* loads a creator is the pass whose plan filter recomputes it, so a loaded
\* creator that the plan filter leaves out is never taken as outdated.
C35_PlannedDependencyKept == [][PassKeepsPlanned]_vars

----------------------------------------------------------------------------
(* Properties of the merge into the stored resumable operations *)

\* the listed operations whose parameters have the expected shape
WellShaped ==
    {id \in DOMAIN initial_operations :
        /\ IsResumable(initial_operations[id], {"g1"})
        /\ initial_operations[id].task_kwargs
        /\ initial_operations[id].kwargs
        /\ initial_operations[id].context}

\* the kwargs of a stored operation with the new input values merged in
WithNewInputs(id) ==
    [k \in DOMAIN initial_operations[id].inputs
              \cup DOMAIN new_operation.inputs |->
        IF k \in DOMAIN new_operation.inputs
        THEN new_operation.inputs[k]
        ELSE initial_operations[id].inputs[k]]

\* the ids sm.update has written
Persisted == {merge_log[k] : k \in DOMAIN merge_log}

\* C14: in the merge of an operation add/modify step a KeyError on one
\* resumable operation does not abort the step: the merge raises only when
\* the new operation has no inputs, and when it returns every listed
\* operation of the expected shape is stored with the new input values
\* merged in, while the operations that raised are stored as they were.
C14_KeyErrorSkipsOneOperation ==
    /\ mpc = "merge_raised" => ~new_operation.has_inputs
    /\ (mpc = "merged" /\ in_flight = "graphs") =>
           /\ merge_error = NoError
           /\ Persisted = WellShaped
           /\ \A id \in WellShaped :
                  /\ operations[id].inputs = WithNewInputs(id)
                  /\ operations[id].has_intrinsic_functions
           /\ \A id \in DOMAIN operations \ WellShaped :
                  operations[id] = initial_operations[id]

\* C14 witness: the merge has returned after a KeyError on an operation
\* that stands before one of the expected shape, whose stored kwargs have
\* changed.
C14_Witness ==
    /\ mpc = "merged"
    /\ in_flight = "graphs"
    /\ \E id \in WellShaped :
           /\ \E other \in 1..(id - 1) : other \notin WellShaped
           /\ operations[id].inputs # initial_operations[id].inputs


\* the stored operations the claim lets the merge modify: in state
\* rescheduled, failed or pending, in a task graph of an execution of the
\* deployment that is pending, started, cancelled or failed, and with
\* parameters that name the node and the operation of the step
MayBeMerged ==
    {id \in DOMAIN initial_operations :
        /\ initial_operations[id].state \in {"rescheduled", "failed", "pending"}
        /\ in_flight = "graphs"
        /\ initial_operations[id].graph = "g1"
        /\ initial_operations[id].named = "node_and_operation"}

\* the stored operations that differ from what was stored before the merge
MergeModified ==
    {id \in DOMAIN operations : operations[id] # initial_operations[id]}

\* C32: the merge into the stored resumable operations modifies only stored
\* operations that are in state rescheduled, failed or pending, belong to a
\* task graph of an execution of the deployment that is pending, started,
\* cancelled or failed, and whose parameters name the node and the
\* operation; every other stored operation stays as it was, and no stored
\* operation changes when there is no such execution or task graph.
C32_MergeModifiesOnlyListed ==
    /\ DOMAIN operations = DOMAIN initial_operations
    /\ MergeModified \subseteq MayBeMerged
    /\ in_flight # "graphs" => operations = initial_operations

\* the merge has returned after modifying a stored operation beside one in
\* another state, one of another task graph or one of another name
C32_Witness ==
    /\ mpc = "merged"
    /\ MergeModified # {}
    /\ \E id \in DOMAIN operations :
          /\ id \notin MayBeMerged
          /\ operations[id] = initial_operations[id]


\* C33: whether the step of an added or modified operation succeeds does
\* not depend on the executions in flight.  Without an execution that is
\* pending, started, cancelled or failed, or without a task graph of such
\* an execution, the merge returns at its first tests for every new
\* operation, so the merge raises for no new operation when such
\* executions and task graphs exist, in particular for a new operation
\* without the key 'inputs'.
C33_MergeSucceedsWithExecutions ==
    in_flight = "graphs" => merge_error = NoError

----------------------------------------------------------------------------
(* Properties of the deployment coordinator *)

\* the applied steps of one entity type, in application order
AppliedOfType(entity_type) ==
    SelectSeq(deployment_applied, LAMBDA st : st.entity_type = entity_type)

\* C20: for every step of a supported entity type the handler returns a
\* non-null identifier, which the coordinator appends to modified_entities
\* under the entity type of the step: after handle the list of each type
\* holds the identifier of each applied step of that type, in application
\* order, and no None.
C20_ReturnedIdsRecorded ==
    depc = "handled" =>
        \A t \in DeploymentEntityTypes :
            /\ Len(deployment_modified[t]) = Len(AppliedOfType(t))
            /\ \A k \in DOMAIN deployment_modified[t] :
                   /\ deployment_modified[t][k] # NoEntityId
                   /\ deployment_modified[t][k] =
                          DeploymentEntityId(AppliedOfType(t)[k])

----------------------------------------------------------------------------
(* Properties of the operations resource *)

\* no request is inside its transaction
NoRequestInFlight == \A r \in DOMAIN requests : requests[r].rpc # "locked"

\* C36: after any sequence of PATCH and DELETE requests on the operations of
\* an execution, concurrent requests on one operation included, the
\* execution's finished_operations is the number of its existing non-nop
\* operations in a terminated state, and is at most total_operations.
C36_FinishedCountsTerminated ==
    NoRequestInFlight =>
        /\ finished_operations =
               Cardinality(
                   {id \in DOMAIN execution_operations :
                       /\ ~execution_operations[id].is_nop
                       /\ execution_operations[id].state
                              \in {"rescheduled", "succeeded", "failed"}})
        /\ finished_operations <= total_operations

----------------------------------------------------------------------------
(* Properties of the executions resource *)

\* the executions the filters of the request match
Matching ==
    {k \in DOMAIN initial_executions :
        IF delete_request.status = "any"
        THEN initial_executions[k].status
                 \in {"terminated", "failed", "cancelled"}
        ELSE initial_executions[k].status = delete_request.status}

\* the executions the request has deleted
Deleted ==
    {k \in DOMAIN initial_executions :
        \A j \in DOMAIN executions :
            executions[j].id # initial_executions[k].id}

\* C37: Executions.delete with keep_last = k keeps at least min(k, n) of the
\* n executions that match the filters: it deletes at most max(0, n - k)
\* executions, and none when k >= n.
C37_KeepLastKeeps ==
    (xpc \in {"delete", "returned"} /\ delete_request.keep_last > 0) =>
        /\ Cardinality(Deleted) + delete_request.keep_last
               <= Cardinality(Matching)
           \/ Cardinality(Deleted) = 0
        /\ Cardinality(Matching \ Deleted) >=
               IF delete_request.keep_last <= Cardinality(Matching)
               THEN delete_request.keep_last
               ELSE Cardinality(Matching)

====
